---- MODULE Spec2Model ----
(***************************************************************************)
(* Canvas placement model of fixed-cropper (src/fixed_cropper/             *)
(* main_window.py): one image item placed, scaled and clamped inside a     *)
(* fixed output frame.                                                     *)
(*                                                                         *)
(* Numbers.  The program computes scale and position with Python floats    *)
(* and Qt qreal.  Here they are exact rationals <<n, d>> in lowest terms   *)
(* with d > 0, so every formula below is the real-number content of the    *)
(* code; rounding of IEEE doubles (an error of one unit in the last place) *)
(* is not represented.                                                     *)
(*                                                                         *)
(* Scheduling.  Every handler runs to completion on the GUI thread.  The   *)
(* scene's changed signal is delivered through the event queue, so the     *)
(* handler _on_scene_changed is an action of its own that runs some time   *)
(* after the change that raised it.  Handlers of raw input (mouse, wheel,  *)
(* keys and key shortcuts) may run before a queued delivery.  An entry     *)
(* that has no shortcut is chosen from its menu with the mouse: the        *)
(* button is not held on the image then, and the event loop has delivered  *)
(* what was queued before the entry is triggered (MenuReady).              *)
(***************************************************************************)
EXTENDS Integers, Sequences, FiniteSets, TLC

VARIABLES
    output_size,           \* MainWindow.output_size: [w, h]
    image_item,            \* MainWindow.image_item: NoItem or the item's fields
    _image_path,           \* MainWindow._image_path: NoPath or a path
    scene_changed_queued,  \* scene.changed raised and not yet delivered
    lastOp,                \* the handler that ran last, where it is logged
    input_calls,           \* rescales, arrow-key nudges and presses so far
    bg_color,              \* MainWindow.bg_color: a QColor, by its name()
    _recent_sizes,         \* MainWindow._recent_sizes: sequence of <<w, h>>
    _recent_bg_colors,     \* MainWindow._recent_bg_colors: sequence of strings
    _last_dir,             \* MainWindow._last_dir
    image_menu_enabled,    \* what _set_image_menu_enabled was last called with
    settings,              \* the QSettings store: last_dir and the two lists
    last_output,           \* what the last export or preview produced
    view                   \* the view: MainWindow.view_zoom and max_view_zoom,
                           \* ImageView._scroll_locked, _panning, _pan_start,
                           \* _h0, _v0 and the values of the two scrollbars

\* the fields of the session outside the placement of the image
sessionVars == <<bg_color, _recent_sizes, _recent_bg_colors, _last_dir,
                 image_menu_enabled, settings, last_output>>

vars == <<output_size, image_item, _image_path, scene_changed_queued,
          lastOp, input_calls, bg_color, _recent_sizes, _recent_bg_colors,
          _last_dir, image_menu_enabled, settings, last_output, view>>

(***************************************************************************)
(* Bounds of the model.                                                    *)
(***************************************************************************)
\* rescales about the center, arrow-key nudges and mouse presses in one run
MaxInputCalls == 1
\* largest numerator and denominator of a number of the model
MaxMagnitude == 1000000000

(***************************************************************************)
(* Exact rational arithmetic.  A number is <<n, d>> in lowest terms with   *)
(* d > 0.  A result whose numerator or denominator would exceed            *)
(* MaxMagnitude is NaN; a handler whose result holds NaN is outside the    *)
(* model (see Representable).                                              *)
(***************************************************************************)
RECURSIVE GCD(_, _)
GCD(a, b) == IF b = 0 THEN a ELSE GCD(b, a % b)

Abs(i) == IF i < 0 THEN -i ELSE i

NaN == <<0, 0>>
IsNaN(a) == a[2] = 0

MulOK(a, b) == a = 0 \/ b = 0 \/ Abs(a) <= MaxMagnitude \div Abs(b)

Norm(n, d) ==
    LET s == IF d < 0 THEN -1 ELSE 1
        g == GCD(Abs(n), Abs(d))
    IN  <<(s * n) \div g, (s * d) \div g>>

R(i) == <<i, 1>>
Num(a) == a[1]
Den(a) == a[2]

RAdd(a, b) ==
    IF IsNaN(a) \/ IsNaN(b) THEN NaN
    ELSE
        LET g == GCD(Den(a), Den(b))
            ka == Den(b) \div g
            kb == Den(a) \div g
        IN  IF MulOK(Den(a), ka) /\ MulOK(Num(a), ka) /\ MulOK(Num(b), kb)
            THEN Norm(Num(a) * ka + Num(b) * kb, Den(a) * ka)
            ELSE NaN

RNeg(a) == <<-Num(a), Den(a)>>
RSub(a, b) == RAdd(a, RNeg(b))

RMul(a, b) ==
    IF IsNaN(a) \/ IsNaN(b) THEN NaN
    ELSE
        LET g1 == GCD(Abs(Num(a)), Den(b))
            g2 == GCD(Abs(Num(b)), Den(a))
            n1 == Num(a) \div g1
            n2 == Num(b) \div g2
            d1 == Den(a) \div g2
            d2 == Den(b) \div g1
        IN  IF MulOK(n1, n2) /\ MulOK(d1, d2)
            THEN Norm(n1 * n2, d1 * d2)
            ELSE NaN

\* 1 / a, for a # 0
RInv(a) == IF Num(a) < 0 THEN <<-Den(a), -Num(a)>> ELSE <<Den(a), Num(a)>>
RDiv(a, b) == RMul(a, RInv(b))

\* na / da <= nb / db for da, db > 0, by comparing the integer parts and then
\* the reciprocals of the fractional parts (no product is formed)
RECURSIVE LeFrac(_, _, _, _)
LeFrac(na, da, nb, db) ==
    LET qa == na \div da
        qb == nb \div db
        ra == na % da
        rb == nb % db
    IN  IF qa # qb THEN qa < qb
        ELSE IF ra = 0 THEN TRUE
        ELSE IF rb = 0 THEN FALSE
        ELSE LeFrac(db, rb, da, ra)

RLe(a, b) == ~IsNaN(a) /\ ~IsNaN(b) /\ LeFrac(Num(a), Den(a), Num(b), Den(b))
RLt(a, b) == ~IsNaN(a) /\ ~IsNaN(b) /\ ~LeFrac(Num(b), Den(b), Num(a), Den(a))

\* abs(a)
RAbs(a) == <<Abs(Num(a)), Den(a)>>

\* Python's min(a, b) and max(a, b)
RMin(a, b) == IF IsNaN(a) \/ IsNaN(b) THEN NaN ELSE IF RLt(b, a) THEN b ELSE a
RMax(a, b) == IF IsNaN(a) \/ IsNaN(b) THEN NaN ELSE IF RLt(a, b) THEN b ELSE a

(***************************************************************************)
(* Program constants.                                                      *)
(***************************************************************************)
NoItem == [none |-> TRUE]
NoPath == "None"
NoPoint == <<>>
NoAxis == "None"
NullPixmap == <<>>

InitialW == 1920
InitialH == 1080

\* _clamp_image_pos: fw * 0.25
ClampMargin == <<1, 4>>

\* zoom_image: step bases and the internal scale range
BaseNormal == <<23, 20>>
BaseFine == <<103, 100>>
BaseUltra == <<101, 100>>
MinScale == <<1, 50>>
MaxScale == <<50, 1>>

\* set_image_scale_percent: range of the percentage
MinPercent == <<1, 1>>
MaxPercent == <<5000, 1>>

(***************************************************************************)
(* Inputs.                                                                 *)
(***************************************************************************)
\* files the user can open: the size of the decoded pixmap, or NullPixmap
\* when QPixmap(path) fails to decode
Paths == {"a.png", "b.png", "bad.png"}

PixmapOf(path) ==
    CASE path = "a.png" -> <<2, 2>>
      [] path = "b.png" -> <<800, 600>>
      [] OTHER -> NullPixmap

\* sizes chosen from the size menu or typed into the custom-size dialog
FrameSizes == {<<1920, 1080>>, <<1080, 1920>>, <<8, 6>>}

\* values handed to set_image_scale_percent
PercentInputs == {<<1, 2>>, <<50, 1>>, <<6000, 1>>}

\* scene positions of the mouse pointer
ScenePts == {<<4, 3>>, <<1900, 540>>}

ArrowKeys == {"Left", "Right", "Up", "Down"}
ZoomSteps == {"normal", "fine", "ultra"}
\* the steps ImageView.wheelEvent passes to zoom_image
WheelSteps == {"normal", "fine"}

(***************************************************************************)
(* Points and the item's transform (pos + scale * local, origin (0, 0)).   *)
(***************************************************************************)
PAdd(p, q) == <<RAdd(p[1], q[1]), RAdd(p[2], q[2])>>
PSub(p, q) == <<RSub(p[1], q[1]), RSub(p[2], q[2])>>
PInt(x, y) == <<R(x), R(y)>>

\* OutputSize.rect.center()
Center(size) == <<Norm(size.w, 2), Norm(size.h, 2)>>

mapFromScene(item, p) ==
    <<RDiv(RSub(p[1], item.pos[1]), item.scale),
      RDiv(RSub(p[2], item.pos[2]), item.scale)>>

mapToScene(item, l) ==
    <<RAdd(item.pos[1], RMul(item.scale, l[1])),
      RAdd(item.pos[2], RMul(item.scale, l[2]))>>

setPos(item, p) == [item EXCEPT !.pos = p]
setScale(item, s) == [item EXCEPT !.scale = s]

\* MovableImageItem(pixmap): scale 1, position (0, 0), no press recorded
NewItem(pm) ==
    [pixmap |-> pm, scale |-> R(1), pos |-> PInt(0, 0),
     _press_scene_pos |-> NoPoint, _press_item_pos |-> NoPoint,
     _lock_axis |-> NoAxis, moving_initial |-> NoPoint,
     buttons |-> {}, button_down |-> NoPoint]

_scaled_image_size(item) ==
    <<RMul(R(item.pixmap[1]), item.scale), RMul(R(item.pixmap[2]), item.scale)>>

(***************************************************************************)
(* Position clamping.                                                      *)
(***************************************************************************)
\* variants of _clamp_image_pos: without the margin on the right, and without
\* the lower bound on x
_clamp_image_pos_no_margin(size, item) ==
    IF item = NoItem THEN item
    ELSE
        LET fw == R(size.w)
            fh == R(size.h)
            iw == RMul(R(item.pixmap[1]), item.scale)
            ih == RMul(R(item.pixmap[2]), item.scale)
            min_x == RAdd(RNeg(iw), RMul(fw, ClampMargin))
            max_x == fw
            min_y == RAdd(RNeg(ih), RMul(fh, ClampMargin))
            max_y == RSub(fh, RMul(fh, ClampMargin))
            x == RMin(max_x, RMax(min_x, item.pos[1]))
            y == RMin(max_y, RMax(min_y, item.pos[2]))
        IN  setPos(item, <<x, y>>)

_clamp_image_pos_no_min(size, item) ==
    IF item = NoItem THEN item
    ELSE
        LET fw == R(size.w)
            fh == R(size.h)
            ih == RMul(R(item.pixmap[2]), item.scale)
            max_x == RSub(fw, RMul(fw, ClampMargin))
            min_y == RAdd(RNeg(ih), RMul(fh, ClampMargin))
            max_y == RSub(fh, RMul(fh, ClampMargin))
            x == RMin(max_x, item.pos[1])
            y == RMin(max_y, RMax(min_y, item.pos[2]))
        IN  setPos(item, <<x, y>>)

\* variant of _clamp_image_pos: the top left corner stays inside the frame
_clamp_image_pos_corner_inside(size, item) ==
    IF item = NoItem THEN item
    ELSE
        LET fw == R(size.w)
            fh == R(size.h)
            max_x == RSub(fw, RMul(fw, ClampMargin))
            max_y == RSub(fh, RMul(fh, ClampMargin))
            x == RMin(max_x, RMax(R(0), item.pos[1]))
            y == RMin(max_y, RMax(R(0), item.pos[2]))
        IN  setPos(item, <<x, y>>)

_clamp_image_pos(size, item) ==
    IF item = NoItem THEN item
    ELSE
        LET fw == R(size.w)
            fh == R(size.h)
            iw == RMul(R(item.pixmap[1]), item.scale)
            ih == RMul(R(item.pixmap[2]), item.scale)
            min_x == RAdd(RNeg(iw), RMul(fw, ClampMargin))
            max_x == RSub(fw, RMul(fw, ClampMargin))
            min_y == RAdd(RNeg(ih), RMul(fh, ClampMargin))
            max_y == RSub(fh, RMul(fh, ClampMargin))
            x == RMin(max_x, RMax(min_x, item.pos[1]))
            y == RMin(max_y, RMax(min_y, item.pos[2]))
        IN  setPos(item, <<x, y>>)

(***************************************************************************)
(* Placement and fit.                                                      *)
(***************************************************************************)
\* variant of _place_image_initial: the fitted image is left at the origin
_place_image_initial_at_origin(size, item) ==
    IF item = NoItem THEN item
    ELSE
        LET s == RMin(RDiv(R(size.w), R(item.pixmap[1])),
                      RDiv(R(size.h), R(item.pixmap[2])))
        IN  _clamp_image_pos(size, setPos(setScale(item, s), PInt(0, 0)))

_place_image_initial(size, item) ==
    IF item = NoItem THEN item
    ELSE
        LET fw == R(size.w)
            fh == R(size.h)
            iw == R(item.pixmap[1])
            ih == R(item.pixmap[2])
            s == RMin(RDiv(fw, iw), RDiv(fh, ih))
            scaled_w == RMul(iw, s)
            scaled_h == RMul(ih, s)
            placed == setPos(setScale(item, s),
                             <<RDiv(RSub(fw, scaled_w), R(2)),
                               RDiv(RSub(fh, scaled_h), R(2))>>)
        IN  _clamp_image_pos(size, placed)

\* variant of _apply_image_scale_and_center: the scale is set and the position
\* is only clamped
_apply_image_scale_only(size, item, scale) ==
    _clamp_image_pos(size, setScale(item, scale))

_apply_image_scale_and_center(size, item, scale) ==
    LET fw == R(size.w)
        fh == R(size.h)
        iw == RMul(R(item.pixmap[1]), scale)
        ih == RMul(R(item.pixmap[2]), scale)
        placed == setPos(setScale(item, scale),
                         <<RDiv(RSub(fw, iw), R(2)), RDiv(RSub(fh, ih), R(2))>>)
    IN  _clamp_image_pos(size, placed)

fit_image_to_width(size, item) ==
    _apply_image_scale_and_center(size, item, RDiv(R(size.w), R(item.pixmap[1])))

fit_image_to_height(size, item) ==
    _apply_image_scale_and_center(size, item, RDiv(R(size.h), R(item.pixmap[2])))

\* variant of fit_image_contain: the larger of the two ratios
fit_image_cover(size, item) ==
    _apply_image_scale_and_center(size, item,
        RMax(RDiv(R(size.w), R(item.pixmap[1])), RDiv(R(size.h), R(item.pixmap[2]))))

fit_image_contain(size, item) ==
    _apply_image_scale_and_center(size, item,
        RMin(RDiv(R(size.w), R(item.pixmap[1])), RDiv(R(size.h), R(item.pixmap[2]))))

(***************************************************************************)
(* Align.                                                                  *)
(***************************************************************************)
align_center(size, item) ==
    LET sz == _scaled_image_size(item)
    IN  _clamp_image_pos(size,
            setPos(item, <<RDiv(RSub(R(size.w), sz[1]), R(2)),
                           RDiv(RSub(R(size.h), sz[2]), R(2))>>))

align_center_vertical(size, item) ==
    LET sz == _scaled_image_size(item)
        x == item.pos[1]
        y == RDiv(RSub(R(size.h), sz[2]), R(2))
    IN  _clamp_image_pos(size, setPos(item, <<x, y>>))

align_center_horizontal(size, item) ==
    LET sz == _scaled_image_size(item)
        x == RDiv(RSub(R(size.w), sz[1]), R(2))
        y == item.pos[2]
    IN  _clamp_image_pos(size, setPos(item, <<x, y>>))

\* variant of align_top: the image goes to the top left corner
align_top_left(size, item) ==
    _clamp_image_pos(size, setPos(item, <<R(0), R(0)>>))

align_top(size, item) ==
    _clamp_image_pos(size, setPos(item, <<item.pos[1], R(0)>>))

\* variant of align_bottom: the height of the pixmap, not of the scaled image
align_bottom_unscaled(size, item) ==
    _clamp_image_pos(size,
        setPos(item, <<item.pos[1], RSub(R(size.h), R(item.pixmap[2]))>>))

align_bottom(size, item) ==
    LET sz == _scaled_image_size(item)
    IN  _clamp_image_pos(size,
            setPos(item, <<item.pos[1], RSub(R(size.h), sz[2])>>))

align_left(size, item) ==
    _clamp_image_pos(size, setPos(item, <<R(0), item.pos[2]>>))

align_right(size, item) ==
    LET sz == _scaled_image_size(item)
    IN  _clamp_image_pos(size,
            setPos(item, <<RSub(R(size.w), sz[1]), item.pos[2]>>))

(***************************************************************************)
(* Rescaling about the frame center.  Each of the three functions maps the *)
(* center into item coordinates, sets the scale, maps the point back and   *)
(* moves the item by the difference.                                       *)
(***************************************************************************)
\* the four lines shared by reset_image_scale_100, zoom_image and
\* set_image_scale_percent, before the clamp
\* variant of RescaleAboutCenter: the scene origin is the fixed point
RescaleAboutOrigin(size, item, new_s) ==
    LET center == PInt(0, 0)
        item_local == mapFromScene(item, center)
        scaled == setScale(item, new_s)
        new_center_scene == mapToScene(scaled, item_local)
    IN  setPos(scaled, PAdd(scaled.pos, PSub(center, new_center_scene)))

RescaleAboutCenter(size, item, new_s) ==
    LET center == Center(size)
        item_local == mapFromScene(item, center)
        scaled == setScale(item, new_s)
        new_center_scene == mapToScene(scaled, item_local)
    IN  setPos(scaled, PAdd(scaled.pos, PSub(center, new_center_scene)))

\* variant of reset_image_scale_100: the scale is set and the position is
\* only clamped
reset_image_scale_100_in_place(size, item) ==
    _clamp_image_pos(size, setScale(item, R(1)))

reset_image_scale_100(size, item) ==
    _clamp_image_pos(size, RescaleAboutCenter(size, item, R(1)))

\* variant of ZoomBase: the ultra step is as large as the fine step
ZoomBaseCoarseUltra(step) ==
    CASE step = "ultra" -> BaseFine
      [] step = "fine" -> BaseFine
      [] OTHER -> BaseNormal

ZoomBase(step) ==
    CASE step = "ultra" -> BaseUltra
      [] step = "fine" -> BaseFine
      [] OTHER -> BaseNormal

\* new_s = max(0.02, min(50.0, old_s * factor))
ZoomNewScale(old_s, zoom_in, step) ==
    LET base == ZoomBase(step)
        factor == IF zoom_in THEN base ELSE RInv(base)
    IN  RMax(MinScale, RMin(MaxScale, RMul(old_s, factor)))

\* abs(new_s - old_s) < 1e-12: every denominator of the model is below
\* 2^31 < 10^12, so two scales are that close only when they are equal
TinyDiff(new_s, old_s) == new_s = old_s

zoom_image(size, item, zoom_in, step) ==
    LET old_s == item.scale
        new_s == ZoomNewScale(old_s, zoom_in, step)
    IN  IF TinyDiff(new_s, old_s) THEN item
        ELSE _clamp_image_pos(size, RescaleAboutCenter(size, item, new_s))

\* p = max(1.0, min(5000.0, p)); new_s = p / 100.0
\* variant of PercentNewScale: no lower limit on the percentage
PercentNewScale_no_floor(percent) ==
    RDiv(RMin(MaxPercent, percent), R(100))

PercentNewScale(percent) ==
    RDiv(RMax(MinPercent, RMin(MaxPercent, percent)), R(100))

set_image_scale_percent(size, item, percent) ==
    _clamp_image_pos(size,
        RescaleAboutCenter(size, item, PercentNewScale(percent)))

nudge_image_scale_percent(size, item, delta_percent) ==
    LET cur == RMul(item.scale, R(100))
    IN  set_image_scale_percent(size, item, RAdd(cur, delta_percent))

\* variant of nudge_image_pos: the position is not clamped
nudge_image_pos_unclamped(size, item, dx, dy) ==
    setPos(item, <<RAdd(item.pos[1], R(dx)), RAdd(item.pos[2], R(dy))>>)

nudge_image_pos(size, item, dx, dy) ==
    _clamp_image_pos(size,
        setPos(item, <<RAdd(item.pos[1], R(dx)), RAdd(item.pos[2], R(dy))>>))

(***************************************************************************)
(* Settings store and recent lists.  The store holds strings: a size as    *)
(* "WxH", a color as "#RRGGBB".  The conversions are tables over the       *)
(* strings of the model.                                                   *)
(***************************************************************************)
\* the i-th character of a text
CharAt(s, i) == SubSeq(s, i, i)

DigitChars == {"0", "1", "2", "3", "4", "5", "6", "7", "8", "9"}

DigitValue(c) ==
    CASE c = "0" -> 0 [] c = "1" -> 1 [] c = "2" -> 2 [] c = "3" -> 3
      [] c = "4" -> 4 [] c = "5" -> 5 [] c = "6" -> 6 [] c = "7" -> 7
      [] c = "8" -> 8 [] c = "9" -> 9

IsDigits(s) == Len(s) > 0 /\ \A i \in 1..Len(s) : CharAt(s, i) \in DigitChars

RECURSIVE DigitsValue(_)
DigitsValue(s) ==
    IF Len(s) = 0 THEN 0
    ELSE DigitsValue(SubSeq(s, 1, Len(s) - 1)) * 10 + DigitValue(CharAt(s, Len(s)))

\* str.strip()
RECURSIVE Strip(_)
Strip(s) ==
    IF Len(s) = 0 THEN s
    ELSE IF CharAt(s, 1) = " " THEN Strip(Tail(s))
    ELSE IF CharAt(s, Len(s)) = " " THEN Strip(SubSeq(s, 1, Len(s) - 1))
    ELSE s

\* int(s) of Python for decimal texts: blanks around, an optional sign
Signed(s) == Len(s) > 0 /\ CharAt(s, 1) \in {"+", "-"}

\* int(s) does not raise ValueError
IsPyInt(s) ==
    LET body == Strip(s)
    IN  IsDigits(IF Signed(body) THEN Tail(body) ELSE body)

PyInt(s) ==
    LET body == Strip(s)
    IN  IF Signed(body)
        THEN (IF CharAt(body, 1) = "-" THEN -1 ELSE 1) * DigitsValue(Tail(body))
        ELSE DigitsValue(body)

LowerLetters == "abcdefghijklmnopqrstuvwxyz"
UpperLetters == "ABCDEFGHIJKLMNOPQRSTUVWXYZ"

\* the character at the place c has in from, taken from to; c when absent
MapChar(c, from, to) ==
    IF \E i \in 1..Len(from) : CharAt(from, i) = c
    THEN CharAt(to, CHOOSE i \in 1..Len(from) : CharAt(from, i) = c)
    ELSE c

UpperChar(c) == MapChar(c, LowerLetters, UpperLetters)

LowerChar(c) == MapChar(c, UpperLetters, LowerLetters)

\* str.upper() and str.lower()
RECURSIVE Upper(_)
Upper(s) == IF Len(s) = 0 THEN s ELSE UpperChar(CharAt(s, 1)) \o Upper(Tail(s))

RECURSIVE Lower(_)
Lower(s) == IF Len(s) = 0 THEN s ELSE LowerChar(CharAt(s, 1)) \o Lower(Tail(s))

Home == "~"

\* Path(path).parent
DirOf(path) ==
    CASE path = "a.png" -> "dirA"
      [] path = "b.png" -> "dirB"
      [] OTHER -> "dirBad"

\* sizes typed into the custom-size dialog (QInputDialog.getInt, 1..20000)
CustomSizes == {<<8, 6>>, <<1, 1>>, <<20000, 20000>>}

\* f"{w}x{h}"
FormatSize(sz) == ToString(sz[1]) \o "x" \o ToString(sz[2])

NoSize == <<>>

\* one entry of the stored size list: split("x") into exactly two parts,
\* int() of both, w > 0 and h > 0; NoSize for an entry that is skipped
ParseSize(text) ==
    LET xs == {i \in 1..Len(text) : CharAt(text, i) = "x"}
    IN  IF Cardinality(xs) # 1 THEN NoSize
        ELSE LET i == CHOOSE k \in xs : TRUE
                 w_str == SubSeq(text, 1, i - 1)
                 h_str == SubSeq(text, i + 1, Len(text))
             IN  IF ~IsPyInt(w_str) \/ ~IsPyInt(h_str) THEN NoSize
                 ELSE IF PyInt(w_str) > 0 /\ PyInt(h_str) > 0
                      THEN <<PyInt(w_str), PyInt(h_str)>>
                      ELSE NoSize

\* QColor values the color dialog returns, by QColor.name()
Colors == {"#ffffff", "#102030", "#abcdef"}

\* QColor(s).name() for a text "#RRGGBB"
ColorOf(s) == Lower(s)

\* c.startswith("#") and len(c) == 7
LooksLikeColor(s) == Len(s) = 7 /\ CharAt(s, 1) = "#"

RECURSIVE LoadSizes(_)
LoadSizes(raw) ==
    IF raw = <<>> THEN <<>>
    ELSE LET sz == ParseSize(Head(raw))
         IN  (IF sz = NoSize THEN <<>> ELSE <<sz>>) \o LoadSizes(Tail(raw))

RECURSIVE LoadColors(_)
LoadColors(raw) ==
    IF raw = <<>> THEN <<>>
    ELSE LET c == Strip(Head(raw))
         IN  (IF LooksLikeColor(c) THEN <<Upper(c)>> ELSE <<>>)
                 \o LoadColors(Tail(raw))

\* _load_recent_settings: the two lists read from the store
_load_recent_settings(store) ==
    [sizes |-> LoadSizes(store.custom_sizes), colors |-> LoadColors(store.bg_colors)]

RECURSIVE FormatSizes(_)
FormatSizes(sizes) ==
    IF sizes = <<>> THEN <<>>
    ELSE <<FormatSize(Head(sizes))>> \o FormatSizes(Tail(sizes))

\* _save_recent_settings
_save_recent_settings(store, sizes, colors) ==
    [store EXCEPT !.custom_sizes = FormatSizes(sizes), !.bg_colors = colors]

\* variant of RememberFirst: the entries equal to key stay in the list
RememberFirst_keeping(list, key) ==
    LET all == <<key>> \o list
    IN  SubSeq(all, 1, IF Len(all) < 10 THEN Len(all) ELSE 10)

\* the list without key, key put first, cut to 10 entries
RememberFirst(list, key) ==
    LET others == SelectSeq(list, LAMBDA s : s # key)
        all == <<key>> \o others
    IN  SubSeq(all, 1, IF Len(all) < 10 THEN Len(all) ELSE 10)

_remember_custom_size(list, w, h) == RememberFirst(list, <<w, h>>)

_remember_bg_color(list, c) == RememberFirst(list, Upper(c))

\* a store no run has written to
FreshSettings == [last_dir |-> Home, custom_sizes |-> <<>>, bg_colors |-> <<>>]

NoOutput == [kind |-> "none"]

(***************************************************************************)
(* Rendering.  A raster is its pixel mode, its box <<x0, y0, x1, y1>>, the *)
(* color it was filled with and the box the placed image covers in it.     *)
(***************************************************************************)
\* Python's round() of a number: to the nearest integer, a tie to the even one
PyRound(a) ==
    LET q == Num(a) \div Den(a)
        r == Num(a) % Den(a)
    IN  IF 2 * r < Den(a) THEN q
        ELSE IF 2 * r > Den(a) THEN q + 1
        ELSE IF q % 2 = 0 THEN q ELSE q + 1

IntMin(a, b) == IF a < b THEN a ELSE b
IntMax(a, b) == IF a < b THEN b ELSE a

EmptyBox == <<0, 0, 0, 0>>

BoxW(box) == box[3] - box[1]
BoxH(box) == box[4] - box[2]

\* the part of box inside frame; EmptyBox when they do not meet
ClipBox(box, frame) ==
    LET x0 == IntMax(box[1], frame[1])
        y0 == IntMax(box[2], frame[2])
        x1 == IntMin(box[3], frame[3])
        y1 == IntMin(box[4], frame[4])
    IN  IF x0 < x1 /\ y0 < y1 THEN <<x0, y0, x1, y1>> ELSE EmptyBox

\* the smallest box holding both
HullBox(a, b) ==
    <<IntMin(a[1], b[1]), IntMin(a[2], b[2]), IntMax(a[3], b[3]), IntMax(a[4], b[4])>>

\* Image.new(mode, (w, h), color)
ImageNew(mode, w, h, color) ==
    [mode |-> mode, box |-> <<0, 0, w, h>>, fill |-> color, image |-> EmptyBox]

\* variant of ImagePaste: the canvas grows to hold the pasted image
ImagePaste_growing(canvas, w, h, x, y) ==
    [canvas EXCEPT !.box = HullBox(canvas.box, <<x, y, x + w, y + h>>),
                   !.image = <<x, y, x + w, y + h>>]

\* canvas.paste(resized, (x, y), resized): pixels outside the canvas are
\* dropped
ImagePaste(canvas, w, h, x, y) ==
    [canvas EXCEPT !.image = ClipBox(<<x, y, x + w, y + h>>, canvas.box)]

\* canvas.convert("RGB")
ImageConvert(raster, mode) == [raster EXCEPT !.mode = mode]

RasterSize(raster) == <<BoxW(raster.box), BoxH(raster.box)>>

\* the size of the image Pillow reads from the file of the loaded image
SourceSize(path) == PixmapOf(path)

\* MainWindow._render_output_pil
_render_output_pil(size, bg, path, item) ==
    LET canvas == ImageNew("RGBA", size.w, size.h, bg)
    IN  IF path = NoPath \/ item = NoItem THEN canvas
        ELSE LET src == SourceSize(path)
                 s == item.scale
                 x == PyRound(item.pos[1])
                 y == PyRound(item.pos[2])
                 new_w == IntMax(1, PyRound(RMul(R(src[1]), s)))
                 new_h == IntMax(1, PyRound(RMul(R(src[2]), s)))
             IN  ImageConvert(ImagePaste(canvas, new_w, new_h, x, y), "RGB")

\* what the window would render now
RenderNow == _render_output_pil(output_size, bg_color, _image_path, image_item)

(***************************************************************************)
(* The view.  Scrollbar values are in viewport pixels of the transformed   *)
(* scene; the scene rect is the frame with a margin on every side.         *)
(***************************************************************************)
\* the size of the viewport of the view, in pixels
Viewport == <<1604, 964>>

view_fit_padding == 80
SceneMargin == 300

\* max_view_zoom before the first fit
NoZoom == <<>>

MinViewZoom == <<1, 10>>
UnfittedMaxViewZoom == <<4, 1>>
ViewZoomFactor == <<11, 10>>
LockTolerance == <<1, 1>>

\* QGraphicsView.fitInView(r, KeepAspectRatio) of the frame grown by the
\* padding: the viewport less a margin of 2 pixels on every side
FitZoom(size) ==
    RMin(Norm(Viewport[1] - 4, size.w + 2 * view_fit_padding),
         Norm(Viewport[2] - 4, size.h + 2 * view_fit_padding))

\* the range of a scrollbar: the transformed scene rect less the viewport,
\* (0, 0) when the scene fits
ScrollRange(zoom, len, extent) ==
    LET left == PyRound(RMul(zoom, R(0 - SceneMargin)))
        right == PyRound(RMul(zoom, R(len + SceneMargin))) - extent
    IN  IF left >= right THEN <<0, 0>> ELSE <<left, right>>

\* QScrollBar.setValue: the value is bound to the range
SetValue(range, value) == IntMax(range[1], IntMin(range[2], value))

HRange(zoom, size) == ScrollRange(zoom, size.w, Viewport[1])
VRange(zoom, size) == ScrollRange(zoom, size.h, Viewport[2])

\* QGraphicsView.centerOn(point) at a zoom: the scrollbar values
CenterOn(zoom, size, point) ==
    <<SetValue(HRange(zoom, size),
               PyRound(RSub(RMul(zoom, point[1]), Norm(Viewport[1], 2)))),
      SetValue(VRange(zoom, size),
               PyRound(RSub(RMul(zoom, point[2]), Norm(Viewport[2], 2))))>>

\* the scene point in the middle of the viewport
ViewCenter(v) ==
    <<RDiv(RAdd(R(v.h_value), Norm(Viewport[1], 2)), v.view_zoom),
      RDiv(RAdd(R(v.v_value), Norm(Viewport[2], 2)), v.view_zoom)>>

\* ImageView.set_scroll_locked together with the centerOn that follows it
\* in _update_scroll_lock
_update_scroll_lock(size, v) ==
    IF v.max_view_zoom = NoZoom
    THEN [v EXCEPT !._scroll_locked = FALSE]
    ELSE LET locked == RLt(RAbs(RSub(v.view_zoom, v.max_view_zoom)), LockTolerance)
             at == IF locked
                   THEN CenterOn(v.view_zoom, size, Center(size))
                   ELSE <<v.h_value, v.v_value>>
         IN  [v EXCEPT !._scroll_locked = locked,
                       !.h_value = at[1], !.v_value = at[2]]

\* max(min_z, min(max_z, z))
ClampViewZoom(max_z, z) == RMax(MinViewZoom, RMin(max_z, z))

\* max_z = self.max_view_zoom or 4.0
MaxZoomOf(v) ==
    IF v.max_view_zoom = NoZoom THEN UnfittedMaxViewZoom ELSE v.max_view_zoom

\* MainWindow.set_view_zoom: the transform keeps the scene point in the
\* middle of the viewport (AnchorViewCenter)
set_view_zoom(size, v, z) ==
    LET new_z == ClampViewZoom(MaxZoomOf(v), z)
        at == CenterOn(new_z, size, ViewCenter(v))
    IN  _update_scroll_lock(size,
            [v EXCEPT !.view_zoom = new_z, !.h_value = at[1], !.v_value = at[2]])

\* self.view_zoom * factor
NudgedZoom(v, zoom_in) ==
    IF zoom_in THEN RMul(v.view_zoom, ViewZoomFactor)
    ELSE RMul(v.view_zoom, RInv(ViewZoomFactor))

\* MainWindow.nudge_view_zoom
nudge_view_zoom(size, v, zoom_in) == set_view_zoom(size, v, NudgedZoom(v, zoom_in))

\* MainWindow.fit_canvas_to_window
fit_canvas_to_window(size, v) ==
    LET z == FitZoom(size)
        at == CenterOn(z, size, Center(size))
    IN  [v EXCEPT !.view_zoom = z, !.max_view_zoom = z, !._scroll_locked = TRUE,
                  !.h_value = at[1], !.v_value = at[2]]

NoPanStart == <<>>

\* the view after __init__, before the window is shown
NewView ==
    [view_zoom |-> R(1), max_view_zoom |-> NoZoom, _scroll_locked |-> FALSE,
     _panning |-> FALSE, _pan_start |-> NoPanStart, _h0 |-> 0, _v0 |-> 0,
     h_value |-> 0, v_value |-> 0]

\* the view once the window is shown: showEvent fits the frame
ShownView(size) == fit_canvas_to_window(size, NewView)

(***************************************************************************)
(* Initial state: MainWindow.__init__.                                     *)
(***************************************************************************)
\* lastOp is a history variable: a specification that starts it at NotLogged
\* keeps no log
NotLogged == "-"
Log(name) == IF lastOp = NotLogged THEN NotLogged ELSE name

Init ==
    /\ output_size = [w |-> InitialW, h |-> InitialH]
    /\ image_item = NoItem
    /\ _image_path = NoPath
    /\ scene_changed_queued = FALSE
    /\ lastOp = NotLogged
    /\ input_calls = 0
    /\ bg_color = "#ffffff"
    /\ settings = FreshSettings
    /\ _last_dir = FreshSettings.last_dir
    /\ _recent_sizes = _load_recent_settings(FreshSettings).sizes
    /\ _recent_bg_colors = _load_recent_settings(FreshSettings).colors
    /\ image_menu_enabled = FALSE
    /\ last_output = NoOutput
    /\ view = NewView

(***************************************************************************)
(* Handlers.  ItemOp is a handler of the image menu or of the view that    *)
(* needs an image and leaves the item as newItem; a change of the item     *)
(* raises scene.changed.                                                   *)
(***************************************************************************)
Representable(item) ==
    item = NoItem \/
        (~IsNaN(item.scale) /\ ~IsNaN(item.pos[1]) /\ ~IsNaN(item.pos[2]))

\* a menu entry without a shortcut can be triggered
MenuReady ==
    /\ ~scene_changed_queued
    /\ image_item # NoItem => image_item.buttons = {}

ItemOp(name, newItem) ==
    /\ image_item # NoItem
    /\ Representable(newItem)
    /\ image_item' = newItem
    /\ scene_changed_queued' = (scene_changed_queued \/ newItem # image_item)
    /\ lastOp' = Log(name)
    /\ UNCHANGED <<output_size, _image_path, view>>
    /\ UNCHANGED sessionVars

\* variant of _set_image_menu_enabled: the menu is never disabled
_set_image_menu_enabled_on(enabled) == TRUE

\* MainWindow._set_image_menu_enabled: the state given to the Image menu and
\* its actions
_set_image_menu_enabled(enabled) == enabled

open_image_from_path(path) ==
    LET pixmap == PixmapOf(path)
    IN  IF pixmap = NullPixmap
        THEN /\ lastOp' = Log("open_image_from_path:failed")
             /\ UNCHANGED <<output_size, image_item, _image_path,
                            scene_changed_queued, input_calls, view>>
             /\ UNCHANGED sessionVars
        ELSE /\ _image_path' = path
             /\ view' = fit_canvas_to_window(output_size, view)
             /\ image_menu_enabled' = _set_image_menu_enabled(TRUE)
             /\ _last_dir' = DirOf(path)
             /\ settings' = [settings EXCEPT !.last_dir = DirOf(path)]
             /\ UNCHANGED <<bg_color, _recent_sizes, _recent_bg_colors, last_output>>
             /\ image_item' =
                    _clamp_image_pos(output_size,
                        _place_image_initial(output_size, NewItem(pixmap)))
             /\ scene_changed_queued' = TRUE
             /\ lastOp' = Log("open_image_from_path")
             /\ UNCHANGED <<output_size, input_calls>>

OpenImageFromPath == \E path \in Paths : open_image_from_path(path)

ClearImage ==
    \E ret \in {"Yes", "No"} :
        /\ image_item # NoItem
        /\ IF ret # "Yes"
           THEN /\ lastOp' = Log("clear_image:declined")
                /\ UNCHANGED <<image_item, _image_path, scene_changed_queued,
                               image_menu_enabled, view>>
           ELSE /\ image_menu_enabled' = _set_image_menu_enabled(FALSE)
                /\ view' = fit_canvas_to_window(output_size, view)
                /\ image_item' = NoItem
                /\ _image_path' = NoPath
                /\ scene_changed_queued' = TRUE
                /\ lastOp' = Log("clear_image")
        /\ UNCHANGED <<output_size, input_calls, bg_color, _recent_sizes,
                       _recent_bg_colors, _last_dir, settings, last_output>>

SetOutputSize ==
    \E sz \in FrameSizes :
        LET size == [w |-> sz[1], h |-> sz[2]]
            placed == _place_image_initial(size, image_item)
        IN  /\ MenuReady
            /\ output_size' = size
            /\ image_item' = placed
            /\ scene_changed_queued' = TRUE
            /\ lastOp' = Log("set_output_size")
            /\ view' = fit_canvas_to_window(size, view)
            /\ UNCHANGED <<_image_path, input_calls>>
            /\ UNCHANGED sessionVars

FitImageToWidth ==
    /\ ItemOp("fit_image_to_width", fit_image_to_width(output_size, image_item))
    /\ UNCHANGED input_calls

FitImageToHeight ==
    /\ ItemOp("fit_image_to_height", fit_image_to_height(output_size, image_item))
    /\ UNCHANGED input_calls

FitImageContain ==
    /\ ItemOp("fit_image_contain", fit_image_contain(output_size, image_item))
    /\ UNCHANGED input_calls

ResetImageToInitial ==
    /\ ItemOp("reset_image_to_initial", _place_image_initial(output_size, image_item))
    /\ UNCHANGED input_calls

AlignCenter ==
    /\ MenuReady
    /\ ItemOp("align_center", align_center(output_size, image_item))
    /\ UNCHANGED input_calls

AlignCenterVertical ==
    /\ MenuReady
    /\ ItemOp("align_center_vertical", align_center_vertical(output_size, image_item))
    /\ UNCHANGED input_calls

AlignCenterHorizontal ==
    /\ MenuReady
    /\ ItemOp("align_center_horizontal", align_center_horizontal(output_size, image_item))
    /\ UNCHANGED input_calls

AlignTop ==
    /\ MenuReady
    /\ ItemOp("align_top", align_top(output_size, image_item))
    /\ UNCHANGED input_calls

AlignBottom ==
    /\ MenuReady
    /\ ItemOp("align_bottom", align_bottom(output_size, image_item))
    /\ UNCHANGED input_calls

AlignLeft ==
    /\ MenuReady
    /\ ItemOp("align_left", align_left(output_size, image_item))
    /\ UNCHANGED input_calls

AlignRight ==
    /\ MenuReady
    /\ ItemOp("align_right", align_right(output_size, image_item))
    /\ UNCHANGED input_calls

ResetImageScale100 ==
    /\ input_calls < MaxInputCalls
    /\ ItemOp("reset_image_scale_100", reset_image_scale_100(output_size, image_item))
    /\ input_calls' = input_calls + 1

ZoomImage ==
    \E zoom_in \in BOOLEAN, step \in WheelSteps :
        /\ input_calls < MaxInputCalls
        /\ ItemOp("zoom_image", zoom_image(output_size, image_item, zoom_in, step))
        /\ input_calls' = input_calls + 1

\* a call of set_image_scale_percent with any number
SetImageScalePercent ==
    \E percent \in PercentInputs :
        /\ input_calls < MaxInputCalls
        /\ ItemOp("set_image_scale_percent",
                  set_image_scale_percent(output_size, image_item, percent))
        /\ input_calls' = input_calls + 1

\* texts in the percentage field when Return is pressed or focus leaves
FieldTexts == {"1", "12.5", "50", "300", "301", "5000", "0.5", ""}

NoValue == <<>>

\* the places of the decimal point in a text
Dots(text) == {i \in 1..Len(text) : CharAt(text, i) = "."}

\* float(text) for digits with at most one decimal point; NoValue where it
\* raises ValueError
ParseFloat(text) ==
    IF Dots(text) = {}
    THEN IF IsDigits(text) THEN R(DigitsValue(text)) ELSE NoValue
    ELSE IF Cardinality(Dots(text)) # 1 THEN NoValue
    ELSE LET i == CHOOSE k \in Dots(text) : TRUE
             whole == SubSeq(text, 1, i - 1)
             frac == SubSeq(text, i + 1, Len(text))
         IN  IF IsDigits(whole \o frac) /\ (whole = "" \/ IsDigits(whole))
                 /\ (frac = "" \/ IsDigits(frac))
             THEN Norm(DigitsValue(whole \o frac), 10 ^ Len(frac))
             ELSE NoValue

\* digits after the decimal point
Decimals(text) ==
    IF Dots(text) = {} THEN 0
    ELSE Len(text) - (CHOOSE k \in Dots(text) : TRUE)

\* QDoubleValidator(1.0, 300.0, 1), standard notation
ValidatorBottom == <<1, 1>>
ValidatorTop == <<300, 1>>
ValidatorDecimals == 1

\* QValidator.Acceptable: the line edit emits returnPressed and
\* editingFinished only for such a text
Acceptable(text) ==
    /\ ParseFloat(text) # NoValue
    /\ RLe(ValidatorBottom, ParseFloat(text))
    /\ RLe(ParseFloat(text), ValidatorTop)
    /\ Decimals(text) <= ValidatorDecimals

\* ImageView._commit_image_scale_input, the slot of both signals
_commit_image_scale_input(size, item, text) ==
    IF item = NoItem THEN item
    ELSE IF text = "" THEN item
    ELSE IF ParseFloat(text) = NoValue THEN item
    ELSE set_image_scale_percent(size, item, ParseFloat(text))

\* Return in the percentage field holding text
CommitImageScaleInput ==
    \E text \in FieldTexts :
        /\ input_calls < MaxInputCalls
        /\ image_item # NoItem
        /\ IF Acceptable(text)
           THEN /\ ItemOp("_commit_image_scale_input:" \o text,
                          _commit_image_scale_input(output_size, image_item, text))
                /\ input_calls' = input_calls + 1
           ELSE /\ lastOp' = Log("returnPressed:" \o text)
                /\ UNCHANGED <<output_size, image_item, _image_path,
                               scene_changed_queued, input_calls, view>>
                /\ UNCHANGED sessionVars

\* the + and - buttons of the overlay
NudgeImageScalePercent ==
    \E delta_percent \in {R(1), R(-1)} :
        /\ input_calls < MaxInputCalls
        /\ ItemOp("nudge_image_scale_percent",
                  nudge_image_scale_percent(output_size, image_item, delta_percent))
        /\ input_calls' = input_calls + 1

\* ImageView.keyPressEvent: 1 px, 10 px with Shift
KeyDelta(key, shift) ==
    LET step == IF shift THEN 10 ELSE 1
    IN  CASE key = "Left" -> <<-step, 0>>
          [] key = "Right" -> <<step, 0>>
          [] key = "Up" -> <<0, -step>>
          [] key = "Down" -> <<0, step>>

NudgeImagePos ==
    \E key \in ArrowKeys, shift \in BOOLEAN :
        /\ input_calls < MaxInputCalls
        /\ ItemOp("nudge_image_pos",
                  nudge_image_pos(output_size, image_item,
                                  KeyDelta(key, shift)[1], KeyDelta(key, shift)[2]))
        /\ input_calls' = input_calls + 1

(***************************************************************************)
(* Dragging: MovableImageItem's mouse handlers.  The scene delivers a      *)
(* press to the item under the pointer, and the moves and the release of   *)
(* that button to the same item.                                           *)
(***************************************************************************)
\* the pointer is over the item's scaled pixmap
UnderCursor(item, q) ==
    LET sz == _scaled_image_size(item)
    IN  /\ RLe(item.pos[1], q[1]) /\ RLt(q[1], RAdd(item.pos[1], sz[1]))
        /\ RLe(item.pos[2], q[2]) /\ RLt(q[2], RAdd(item.pos[2], sz[2]))

\* the buttons of the mouse; buttons holds those that are down and
\* button_down is event.buttonDownScenePos(Qt.LeftButton).  The item under
\* the press grabs the mouse and gets every mouse event until no button is
\* down any more.
Buttons == {"Left", "Right"}

mousePressEvent(item, button, scenePos) ==
    LET it == IF button = "Left"
              THEN [item EXCEPT !._press_scene_pos = scenePos,
                                !._press_item_pos = item.pos,
                                !._lock_axis = NoAxis,
                                !.button_down = scenePos]
              ELSE item
    IN  [it EXCEPT !.buttons = @ \cup {button}]

\* QGraphicsItem.mouseMoveEvent of a movable item: while the left button is
\* down, the position the item had at the first such move of the drag, plus
\* the pointer's travel since the left press
DefaultMove(item, scenePos) ==
    LET initial == IF item.moving_initial = NoPoint THEN item.pos
                   ELSE item.moving_initial
    IN  IF "Left" \in item.buttons
        THEN [item EXCEPT !.moving_initial = initial,
                          !.pos = PAdd(initial, PSub(scenePos, item.button_down))]
        ELSE item

mouseMoveEvent(item, scenePos, shift) ==
    IF /\ "Left" \in item.buttons
       /\ item._press_scene_pos # NoPoint
       /\ item._press_item_pos # NoPoint
       /\ shift
    THEN LET delta == PSub(scenePos, item._press_scene_pos)
             axis == IF item._lock_axis = NoAxis
                     THEN (IF RLe(RAbs(delta[2]), RAbs(delta[1])) THEN "x" ELSE "y")
                     ELSE item._lock_axis
             locked == IF axis = "x" THEN <<delta[1], R(0)>> ELSE <<R(0), delta[2]>>
         IN  [item EXCEPT !._lock_axis = axis,
                          !.pos = PAdd(item._press_item_pos, locked)]
    ELSE DefaultMove(item, scenePos)

\* the release of any button clears the press state; Qt forgets the initial
\* position of the move once no button is down
mouseReleaseEvent(item, button) ==
    LET left == item.buttons \ {button}
    IN  [item EXCEPT !._press_scene_pos = NoPoint,
                     !._press_item_pos = NoPoint,
                     !._lock_axis = NoAxis,
                     !.moving_initial = IF left = {} THEN NoPoint ELSE @,
                     !.button_down = IF button = "Left" THEN NoPoint ELSE @,
                     !.buttons = left]

MousePress ==
    \E q \in ScenePts :
        /\ input_calls < MaxInputCalls
        /\ image_item # NoItem
        /\ image_item.buttons = {}
        /\ UnderCursor(image_item, PInt(q[1], q[2]))
        /\ ItemOp("mousePressEvent",
                  mousePressEvent(image_item, "Left", PInt(q[1], q[2])))
        /\ input_calls' = input_calls + 1

MouseMove ==
    \E r \in ScenePts, shift \in BOOLEAN :
        /\ image_item # NoItem
        /\ "Left" \in image_item.buttons
        /\ ItemOp("mouseMoveEvent",
                  mouseMoveEvent(image_item, PInt(r[1], r[2]), shift))
        /\ UNCHANGED input_calls

MouseRelease ==
    /\ image_item # NoItem
    /\ "Left" \in image_item.buttons
    /\ image_item' = mouseReleaseEvent(image_item, "Left")
    /\ lastOp' = Log("mouseReleaseEvent")
    /\ UNCHANGED <<output_size, _image_path, scene_changed_queued, input_calls,
                   view>>
    /\ UNCHANGED sessionVars

(***************************************************************************)
(* scene.changed -> _on_scene_changed.  The clamp's own setPos raises the   *)
(* signal again when it moves the item.                                    *)
(***************************************************************************)
OnSceneChanged ==
    /\ scene_changed_queued
    /\ image_item' = _clamp_image_pos(output_size, image_item)
    /\ scene_changed_queued' = (image_item' # image_item)
    /\ lastOp' = Log("_on_scene_changed")
    /\ UNCHANGED <<output_size, _image_path, input_calls, view>>
    /\ UNCHANGED sessionVars

Next ==
    \/ OpenImageFromPath
    \/ ClearImage
    \/ SetOutputSize
    \/ FitImageToWidth
    \/ FitImageToHeight
    \/ FitImageContain
    \/ ResetImageToInitial
    \/ AlignCenter
    \/ AlignCenterVertical
    \/ AlignCenterHorizontal
    \/ AlignTop
    \/ AlignBottom
    \/ AlignLeft
    \/ AlignRight
    \/ ResetImageScale100
    \/ ZoomImage
    \/ CommitImageScaleInput
    \/ NudgeImageScalePercent
    \/ NudgeImagePos
    \/ MousePress
    \/ MouseMove
    \/ MouseRelease
    \/ OnSceneChanged

Spec == Init /\ [][Next]_vars

(***************************************************************************)
(* Single handler calls.  StepInit is a window with an image loaded, at any *)
(* scale and position the handlers can leave it at, either at rest (the    *)
(* position clamped, nothing queued) or dragged to an arbitrary position   *)
(* with the scene.changed delivery still queued.  StepNext is one call of  *)
(* a handler.                                                              *)
(***************************************************************************)
\* scales inside the ranges of set_image_scale_percent and zoom_image; the
\* fit scales of the frame and the image are added in StepInit
StepScales == {<<1, 100>>, <<1, 50>>, <<1, 2>>, <<1, 1>>, <<50, 1>>}
StepPositions == {<<-3000, 10>>, <<10, 10>>, <<2000, 0>>, <<10, 2000>>}
Started == "__start__"

StepInit ==
    \E sz \in FrameSizes, path \in Paths, p \in StepPositions, dragged \in BOOLEAN :
        LET size == [w |-> sz[1], h |-> sz[2]]
            pixmap == PixmapOf(path)
        IN  /\ pixmap # NullPixmap
            /\ \E s \in StepScales \cup {RDiv(R(size.w), R(pixmap[1])),
                                          RDiv(R(size.h), R(pixmap[2]))} :
                    LET raw == setPos(setScale(NewItem(pixmap), s), PInt(p[1], p[2]))
                    IN  image_item = IF dragged THEN raw
                                     ELSE _clamp_image_pos(size, raw)
            /\ output_size = size
            /\ _image_path = path
            /\ scene_changed_queued = dragged
            /\ lastOp = Started
            /\ input_calls = 0
            /\ bg_color = "#ffffff"
            /\ settings = [FreshSettings EXCEPT !.last_dir = DirOf(path)]
            /\ _last_dir = DirOf(path)
            /\ _recent_sizes = <<>>
            /\ _recent_bg_colors = <<>>
            /\ image_menu_enabled = TRUE
            /\ last_output = NoOutput
            /\ view = ShownView(output_size)

\* zoom_image called with any of its three steps
CallZoomImage ==
    \E zoom_in \in BOOLEAN, step \in ZoomSteps :
        /\ input_calls < MaxInputCalls
        /\ ItemOp("zoom_image", zoom_image(output_size, image_item, zoom_in, step))
        /\ input_calls' = input_calls + 1

StepNext ==
    \/ lastOp = Started /\ OpenImageFromPath
    \/ lastOp = Started /\ ClearImage
    \/ lastOp = Started /\ SetOutputSize
    \/ lastOp = Started /\ FitImageToWidth
    \/ lastOp = Started /\ FitImageToHeight
    \/ lastOp = Started /\ FitImageContain
    \/ lastOp = Started /\ ResetImageToInitial
    \/ lastOp = Started /\ AlignCenter
    \/ lastOp = Started /\ AlignCenterVertical
    \/ lastOp = Started /\ AlignCenterHorizontal
    \/ lastOp = Started /\ AlignTop
    \/ lastOp = Started /\ AlignBottom
    \/ lastOp = Started /\ AlignLeft
    \/ lastOp = Started /\ AlignRight
    \/ lastOp = Started /\ ResetImageScale100
    \/ lastOp = Started /\ CallZoomImage
    \/ lastOp = Started /\ SetImageScalePercent
    \/ lastOp = Started /\ CommitImageScaleInput
    \/ lastOp = Started /\ NudgeImageScalePercent
    \/ lastOp = Started /\ NudgeImagePos
    \/ lastOp = Started /\ OnSceneChanged

SpecStep == StepInit /\ [][StepNext]_vars

(***************************************************************************)
(* Session handlers: file dialogs, background color, custom sizes, recent  *)
(* lists, export and preview.                                              *)
(***************************************************************************)
\* everything a handler of this section leaves alone when it only touches
\* the session fields
placementVars == <<output_size, image_item, _image_path, scene_changed_queued,
                   input_calls, view>>

\* what QFileDialog.getOpenFileName returns; "" when cancelled
DialogPaths == Paths \cup {""}

\* MainWindow.open_image: the file dialog, then open_image_from_path
open_image(path) ==
    IF path = ""
    THEN /\ lastOp' = Log("open_image:cancelled")
         /\ UNCHANGED placementVars
         /\ UNCHANGED sessionVars
    ELSE IF PixmapOf(path) = NullPixmap
    THEN /\ _last_dir' = DirOf(path)
         /\ settings' = [settings EXCEPT !.last_dir = DirOf(path)]
         /\ lastOp' = Log("open_image:failed")
         /\ UNCHANGED placementVars
         /\ UNCHANGED <<bg_color, _recent_sizes, _recent_bg_colors,
                        image_menu_enabled, last_output>>
    ELSE open_image_from_path(path)

OpenImage == \E path \in DialogPaths : open_image(path)

\* MainWindow.pick_bg_color; the dialog returns an invalid color on cancel
InvalidColor == "invalid"

PickBgColor ==
    \E c \in Colors \cup {InvalidColor} :
        /\ UNCHANGED placementVars
        /\ UNCHANGED <<_recent_sizes, _last_dir, image_menu_enabled, last_output>>
        /\ IF c = InvalidColor
           THEN /\ lastOp' = Log("pick_bg_color:cancelled")
                /\ UNCHANGED <<bg_color, _recent_bg_colors, settings>>
           ELSE /\ bg_color' = c
                /\ _recent_bg_colors' = _remember_bg_color(_recent_bg_colors, c)
                /\ settings' = _save_recent_settings(settings, _recent_sizes,
                                                     _recent_bg_colors')
                /\ lastOp' = Log("pick_bg_color:" \o c)

\* the two preset entries of the background menu: set_bg_color
PresetBgColors == {"#251e1c", "#ffffff"}

\* variant of PresetBgColor: the preset is remembered like a picked colour
PresetBgColor_remembering ==
    \E c \in PresetBgColors :
        /\ bg_color' = c
        /\ _recent_bg_colors' = _remember_bg_color(_recent_bg_colors, c)
        /\ settings' = _save_recent_settings(settings, _recent_sizes,
                                             _recent_bg_colors')
        /\ lastOp' = Log("set_bg_color:preset")
        /\ UNCHANGED placementVars
        /\ UNCHANGED <<_recent_sizes, _last_dir, image_menu_enabled, last_output>>

PresetBgColor ==
    \E c \in PresetBgColors :
        /\ bg_color' = c
        /\ lastOp' = Log("set_bg_color:preset")
        /\ UNCHANGED placementVars
        /\ UNCHANGED <<_recent_sizes, _recent_bg_colors, _last_dir,
                       image_menu_enabled, settings, last_output>>

\* an entry of the recent colors in the background menu: set_bg_color
RecentBgColor ==
    \E i \in 1..Len(_recent_bg_colors) :
        /\ bg_color' = ColorOf(_recent_bg_colors[i])
        /\ lastOp' = Log("set_bg_color")
        /\ UNCHANGED placementVars
        /\ UNCHANGED <<_recent_sizes, _recent_bg_colors, _last_dir,
                       image_menu_enabled, settings, last_output>>

\* MainWindow.set_custom_size: two integer dialogs, either can be cancelled
SetCustomSize ==
    \E sz \in CustomSizes, ok \in BOOLEAN :
        IF ~ok
        THEN /\ lastOp' = Log("set_custom_size:cancelled")
             /\ UNCHANGED placementVars
             /\ UNCHANGED sessionVars
        ELSE LET size == [w |-> sz[1], h |-> sz[2]]
             IN  /\ output_size' = size
                 /\ image_item' = _place_image_initial(size, image_item)
                 /\ scene_changed_queued' = TRUE
                 /\ _recent_sizes' = _remember_custom_size(_recent_sizes, sz[1], sz[2])
                 /\ settings' = _save_recent_settings(settings, _recent_sizes',
                                                      _recent_bg_colors)
                 /\ lastOp' = Log("set_custom_size:" \o FormatSize(sz))
                 /\ view' = fit_canvas_to_window(size, view)
                 /\ UNCHANGED <<_image_path, input_calls, bg_color,
                                _recent_bg_colors, _last_dir, image_menu_enabled,
                                last_output>>

\* an entry of the recent sizes in the size menu: set_output_size
RecentSize ==
    \E i \in 1..Len(_recent_sizes) :
        LET size == [w |-> _recent_sizes[i][1], h |-> _recent_sizes[i][2]]
        IN  /\ output_size' = size
            /\ image_item' = _place_image_initial(size, image_item)
            /\ scene_changed_queued' = TRUE
            /\ lastOp' = Log("set_output_size:recent")
            /\ view' = fit_canvas_to_window(size, view)
            /\ UNCHANGED <<_image_path, input_calls>>
            /\ UNCHANGED sessionVars

\* MainWindow._clear_recent_sizes
ClearRecentSizes ==
    \E ret \in {"Yes", "No"} :
        /\ Len(_recent_sizes) > 0
        /\ UNCHANGED placementVars
        /\ UNCHANGED <<bg_color, _recent_bg_colors, _last_dir,
                       image_menu_enabled, last_output>>
        /\ IF ret # "Yes"
           THEN /\ lastOp' = Log("_clear_recent_sizes:declined")
                /\ UNCHANGED <<_recent_sizes, settings>>
           ELSE /\ _recent_sizes' = <<>>
                /\ settings' = _save_recent_settings(settings, <<>>, _recent_bg_colors)
                /\ lastOp' = Log("_clear_recent_sizes")

\* MainWindow._clear_recent_bg_colors
ClearRecentBgColors ==
    \E ret \in {"Yes", "No"} :
        /\ Len(_recent_bg_colors) > 0
        /\ UNCHANGED placementVars
        /\ UNCHANGED <<bg_color, _recent_sizes, _last_dir,
                       image_menu_enabled, last_output>>
        /\ IF ret # "Yes"
           THEN /\ lastOp' = Log("_clear_recent_bg_colors:declined")
                /\ UNCHANGED <<_recent_bg_colors, settings>>
           ELSE /\ _recent_bg_colors' = <<>>
                /\ settings' = _save_recent_settings(settings, _recent_sizes, <<>>)
                /\ lastOp' = Log("_clear_recent_bg_colors")

\* what QFileDialog.getSaveFileName returns; "" when cancelled
OutPaths == {"", "out.png", "out.jpg", "out.JPEG", "out"}

\* Path(out_path).suffix.lower()
Suffix(path) ==
    LET dots == {i \in 2..Len(path) : CharAt(path, i) = "."}
    IN  IF dots = {} THEN ""
        ELSE Lower(SubSeq(path, CHOOSE i \in dots : \A k \in dots : k <= i, Len(path)))

\* the format Pillow derives from the extension of the file name
FormatOf(suffix) ==
    CASE suffix = ".png" -> "PNG"
      [] suffix \in {".jpg", ".jpeg"} -> "JPEG"
      [] OTHER -> "unknown"

\* Image.save: JPEG holds no alpha channel, an unknown extension is an error
ImageSave(raster, out_path, options) ==
    LET format == FormatOf(Suffix(out_path))
    IN  IF format = "unknown"
        THEN [kind |-> "error", message |-> "unknown file extension"]
        ELSE IF format = "JPEG" /\ raster.mode = "RGBA"
        THEN [kind |-> "error", message |-> "cannot write mode RGBA as JPEG"]
        ELSE [kind |-> "file", path |-> out_path, format |-> format,
              raster |-> raster, options |-> options]

JpegOptions == [quality |-> 95, subsampling |-> 0]
NoOptions == [quality |-> 0, subsampling |-> 0]

\* variant of export_image: a failed save is tried a second time
export_image_retrying(size, bg, path, item, out_path, readable) ==
    IF out_path = "" THEN [kind |-> "cancelled", attempts |-> 0]
    ELSE IF item # NoItem /\ path # NoPath /\ ~readable
    THEN [kind |-> "error", message |-> "cannot open the image file", attempts |-> 2]
    ELSE LET canvas == _render_output_pil(size, bg, path, item)
             saved ==
                 IF Suffix(out_path) \in {".jpg", ".jpeg"}
                 THEN ImageSave(canvas, out_path, JpegOptions)
                 ELSE ImageSave(canvas, out_path, NoOptions)
         IN  [attempts |-> IF saved.kind = "error" THEN 2 ELSE 1] @@ saved

\* MainWindow.export_image from the answer of the save dialog on: what it
\* produces and how many times it rendered and saved; readable tells
\* whether Image.open can read the file of the loaded image
export_image(size, bg, path, item, out_path, readable) ==
    IF out_path = "" THEN [kind |-> "cancelled", attempts |-> 0]
    ELSE IF item # NoItem /\ path # NoPath /\ ~readable
    THEN [kind |-> "error", message |-> "cannot open the image file", attempts |-> 1]
    ELSE LET canvas == _render_output_pil(size, bg, path, item)
             saved ==
                 IF Suffix(out_path) \in {".jpg", ".jpeg"}
                 THEN ImageSave(canvas, out_path, JpegOptions)
                 ELSE ImageSave(canvas, out_path, NoOptions)
         IN  [attempts |-> 1] @@ saved

ExportImage ==
    \E out_path \in OutPaths, readable \in BOOLEAN :
        /\ last_output' = export_image(output_size, bg_color, _image_path,
                                       image_item, out_path, readable)
        /\ lastOp' = Log("export_image:" \o out_path)
        /\ UNCHANGED placementVars
        /\ UNCHANGED <<bg_color, _recent_sizes, _recent_bg_colors, _last_dir,
                       image_menu_enabled, settings>>

\* MainWindow.show_export_preview: render, PNG buffer, dialog
show_export_preview(size, bg, path, item, readable) ==
    IF item # NoItem /\ path # NoPath /\ ~readable
    THEN [kind |-> "error", message |-> "cannot open the image file", attempts |-> 1]
    ELSE [kind |-> "preview", format |-> "PNG", attempts |-> 1,
          raster |-> _render_output_pil(size, bg, path, item)]

ShowExportPreview ==
    \E readable \in BOOLEAN :
        /\ last_output' = show_export_preview(output_size, bg_color, _image_path,
                                              image_item, readable)
        /\ lastOp' = Log("show_export_preview")
        /\ UNCHANGED placementVars
        /\ UNCHANGED <<bg_color, _recent_sizes, _recent_bg_colors, _last_dir,
                       image_menu_enabled, settings>>

\* texts of ten sizes and of ten colors
TenSizes == [i \in 1..10 |-> FormatSize(<<100 + i, 100 + i>>)]
TenColors == [i \in 1..10 |-> "#00000" \o ToString(i - 1)]

\* contents of the settings store at start-up: never written, written by
\* earlier runs, full lists, and files written by something else
Stores ==
    { FreshSettings,
      [last_dir |-> "dirA", custom_sizes |-> <<"8x6", "1x1">>,
       bg_colors |-> <<"#102030", "#ABCDEF">>],
      [last_dir |-> "dirB", custom_sizes |-> TenSizes, bg_colors |-> TenColors],
      [last_dir |-> Home, custom_sizes |-> <<"8x6", "08x6", "0x6", "8*6">>,
       bg_colors |-> <<"#ffffff", "#FFFFFF", " #102030 ", "102030">>],
      [last_dir |-> Home, custom_sizes |-> TenSizes \o <<"111x111">>,
       bg_colors |-> TenColors \o <<"#abcdef">>] }

\* a session after start-up with a store: the lists as loaded, the
\* background white or chosen from the recent colors, the frame a preset or
\* chosen from the recent sizes, and no image, an image, or an image cleared
\* a scale and a position the user has set after the load
UserScale == <<1, 2>>
UserPos == PInt(10, 10)

SessionInit ==
    \E store \in Stores, path \in {NoPath} \cup Paths, cleared \in BOOLEAN,
       moved \in BOOLEAN :
        LET loaded == _load_recent_settings(store)
            pixmap == IF path = NoPath THEN NullPixmap ELSE PixmapOf(path)
            has == pixmap # NullPixmap /\ ~cleared
        IN  /\ path # NoPath => pixmap # NullPixmap
            /\ cleared => path # NoPath
            /\ moved => has
            /\ _recent_sizes = loaded.sizes
            /\ _recent_bg_colors = loaded.colors
            /\ bg_color \in {"#ffffff"} \cup
                   {ColorOf(loaded.colors[i]) : i \in 1..IntMin(2, Len(loaded.colors))}
            /\ \E sz \in {<<InitialW, InitialH>>, <<1080, 1920>>} \cup
                          {loaded.sizes[i] : i \in 1..IntMin(1, Len(loaded.sizes))} :
                   /\ output_size = [w |-> sz[1], h |-> sz[2]]
                   /\ image_item =
                          IF ~has THEN NoItem
                          ELSE IF moved
                          THEN _clamp_image_pos(output_size,
                                   setPos(setScale(NewItem(pixmap), UserScale),
                                          UserPos))
                          ELSE _clamp_image_pos(output_size,
                                   _place_image_initial(output_size, NewItem(pixmap)))
            /\ _image_path = IF has THEN path ELSE NoPath
            /\ image_menu_enabled = has
            /\ _last_dir = IF path = NoPath THEN store.last_dir ELSE DirOf(path)
            /\ settings = [store EXCEPT !.last_dir = _last_dir]
            /\ scene_changed_queued = FALSE
            /\ last_output = NoOutput
            /\ view = ShownView(output_size)
            /\ lastOp = Started
            /\ input_calls = 0

SessionNext ==
    \/ lastOp = Started /\ OpenImage
    \/ lastOp = Started /\ OpenImageFromPath
    \/ lastOp = Started /\ ClearImage
    \/ lastOp = Started /\ SetOutputSize
    \/ lastOp = Started /\ SetCustomSize
    \/ lastOp = Started /\ RecentSize
    \/ lastOp = Started /\ PickBgColor
    \/ lastOp = Started /\ PresetBgColor
    \/ lastOp = Started /\ RecentBgColor
    \/ lastOp = Started /\ ClearRecentSizes
    \/ lastOp = Started /\ ClearRecentBgColors
    \/ lastOp = Started /\ ExportImage
    \/ lastOp = Started /\ ShowExportPreview

SpecSession == SessionInit /\ [][SessionNext]_vars

(***************************************************************************)
(* View handlers: the fit button, the wheel and panning with the left      *)
(* button on the background.  No image is loaded in SpecView, so every      *)
(* point of the viewport is background.                                    *)
(***************************************************************************)
MaxViewEvents == 5

\* everything but the view and the event count
besideView == <<output_size, image_item, _image_path, scene_changed_queued,
                bg_color, _recent_sizes, _recent_bg_colors, _last_dir,
                image_menu_enabled, settings, last_output>>

\* event.angleDelta().y() of one notch, both directions
WheelDeltas == {120, -120}

\* event.globalPosition() of presses and moves
GlobalPts == {<<400, 300>>, <<340, 420>>}

\* the products formed when the view goes to zoom z stay within MaxMagnitude
ZoomRepresentable(size, v, z) ==
    LET c == ViewCenter(v)
    IN  /\ ~IsNaN(z)
        /\ ~IsNaN(c[1]) /\ ~IsNaN(c[2])
        /\ ~IsNaN(RMul(z, c[1])) /\ ~IsNaN(RMul(z, c[2]))
        /\ ~IsNaN(RMul(z, R(0 - SceneMargin)))
        /\ ~IsNaN(RMul(z, Center(size)[1])) /\ ~IsNaN(RMul(z, Center(size)[2]))
        /\ ~IsNaN(RMul(z, R(size.w + SceneMargin)))
        /\ ~IsNaN(RMul(z, R(size.h + SceneMargin)))
        /\ ~IsNaN(RSub(z, IF v.max_view_zoom = NoZoom THEN z ELSE v.max_view_zoom))

ViewOp(name, newView) ==
    /\ input_calls < MaxViewEvents
    /\ lastOp' = Log(name)
    /\ view' = newView
    /\ input_calls' = input_calls + 1
    /\ UNCHANGED besideView

\* the deferred call of showEvent, and afterwards the fit button of the
\* overlay, which is clicked with the left button and so not during a pan
FitCanvasToWindow ==
    /\ ~view._panning
    /\ ViewOp("fit_canvas_to_window", fit_canvas_to_window(output_size, view))

\* showEvent's deferred fit has run: the window takes wheel and mouse events
Shown == view.max_view_zoom # NoZoom

\* ImageView.wheelEvent with the pointer on the background
wheelEvent(size, v, delta, mods) ==
    IF mods = "Ctrl" THEN nudge_view_zoom(size, v, delta > 0)
    ELSE IF v._scroll_locked THEN v
    ELSE IF mods = "Shift"
    THEN [v EXCEPT !.h_value = SetValue(HRange(v.view_zoom, size), v.h_value - delta)]
    ELSE [v EXCEPT !.v_value = SetValue(VRange(v.view_zoom, size), v.v_value - delta)]

WheelZoomView ==
    \E delta \in WheelDeltas :
        /\ Shown
        /\ ZoomRepresentable(output_size, view,
               ClampViewZoom(MaxZoomOf(view), NudgedZoom(view, delta > 0)))
        /\ ViewOp("wheelEvent:Ctrl", wheelEvent(output_size, view, delta, "Ctrl"))

WheelScroll ==
    \E delta \in WheelDeltas, mods \in {"None", "Shift"} :
        /\ Shown
        /\ ViewOp("wheelEvent:" \o mods, wheelEvent(output_size, view, delta, mods))

\* ImageView.mousePressEvent, left button on the background
viewMousePressEvent(v, globalPos) ==
    IF v._scroll_locked THEN v
    ELSE [v EXCEPT !._panning = TRUE, !._pan_start = globalPos,
                   !._h0 = v.h_value, !._v0 = v.v_value]

\* ImageView.mouseMoveEvent
viewMouseMoveEvent(size, v, globalPos) ==
    IF v._panning /\ v._pan_start # NoPanStart
    THEN LET dx == globalPos[1] - v._pan_start[1]
             dy == globalPos[2] - v._pan_start[2]
         IN  [v EXCEPT !.h_value = SetValue(HRange(v.view_zoom, size), v._h0 - dx),
                       !.v_value = SetValue(VRange(v.view_zoom, size), v._v0 - dy)]
    ELSE v

\* ImageView.mouseReleaseEvent, left button
viewMouseReleaseEvent(v) ==
    IF v._panning THEN [v EXCEPT !._panning = FALSE, !._pan_start = NoPanStart]
    ELSE v

\* the left button is down on the view
ViewButtonDown == view._panning

ViewMousePress ==
    \E globalPos \in GlobalPts :
        /\ Shown
        /\ ~view._panning
        /\ ViewOp("ImageView.mousePressEvent", viewMousePressEvent(view, globalPos))

ViewMouseMove ==
    \E globalPos \in GlobalPts :
        /\ Shown
        /\ ViewOp("ImageView.mouseMoveEvent",
               viewMouseMoveEvent(output_size, view, globalPos))

ViewMouseRelease ==
    /\ view._panning
    /\ ViewOp("ImageView.mouseReleaseEvent", viewMouseReleaseEvent(view))

\* frame sizes of the view specification
ViewSizes == FrameSizes \cup CustomSizes

\* start-up with a fresh store; the frame is the initial one, with the
\* window constructed or shown, or another one chosen from the size menu
\* or entered in the custom-size dialog, which fits the frame
ViewInit ==
    \E sz \in ViewSizes, shown \in BOOLEAN :
        LET custom == sz \notin {<<InitialW, InitialH>>, <<1080, 1920>>}
            sizes == IF custom THEN _remember_custom_size(<<>>, sz[1], sz[2])
                     ELSE <<>>
        IN  /\ output_size = [w |-> sz[1], h |-> sz[2]]
            /\ (~shown) => sz = <<InitialW, InitialH>>
            /\ view = IF shown THEN ShownView(output_size) ELSE NewView
            /\ image_item = NoItem
            /\ _image_path = NoPath
            /\ scene_changed_queued = FALSE
            /\ lastOp = Started
            /\ input_calls = 0
            /\ bg_color = "#ffffff"
            /\ _recent_sizes = sizes
            /\ _recent_bg_colors = <<>>
            /\ settings = _save_recent_settings(FreshSettings, sizes, <<>>)
            /\ _last_dir = FreshSettings.last_dir
            /\ image_menu_enabled = FALSE
            /\ last_output = NoOutput

ViewNext ==
    \/ FitCanvasToWindow
    \/ WheelZoomView
    \/ WheelScroll
    \/ ViewMousePress
    \/ ViewMouseMove
    \/ ViewMouseRelease

SpecView == ViewInit /\ [][ViewNext]_vars

(***************************************************************************)
(* Properties.  The quantities below are written from the statements they  *)
(* check, without the operators of the handlers.                           *)
(***************************************************************************)
ScaledW(item) == RMul(R(item.pixmap[1]), item.scale)
ScaledH(item) == RMul(R(item.pixmap[2]), item.scale)

\* the bounds of the clamp rule: -(iw*s) + 0.25*fw, 0.75*fw and the same for y
MinX(size, item) == RAdd(RNeg(ScaledW(item)), Norm(size.w, 4))
MaxX(size) == Norm(3 * size.w, 4)
MinY(size, item) == RAdd(RNeg(ScaledH(item)), Norm(size.h, 4))
MaxY(size) == Norm(3 * size.h, 4)

InBounds(size, item) ==
    /\ RLe(MinX(size, item), item.pos[1]) /\ RLe(item.pos[1], MaxX(size))
    /\ RLe(MinY(size, item), item.pos[2]) /\ RLe(item.pos[2], MaxY(size))

\* the value of [lo, hi] nearest to v
Nearest(lo, hi, v) == IF RLt(v, lo) THEN lo ELSE IF RLt(hi, v) THEN hi ELSE v

ClampTo(size, item, p) ==
    <<Nearest(MinX(size, item), MaxX(size), p[1]),
      Nearest(MinY(size, item), MaxY(size), p[2])>>

\* a load that decodes its file
LoadedImage ==
    \E path \in Paths : PixmapOf(path) # NullPixmap /\ open_image_from_path(path)

AnyAlign ==
    \/ AlignCenter \/ AlignCenterVertical \/ AlignCenterHorizontal
    \/ AlignTop \/ AlignBottom \/ AlignLeft \/ AlignRight

\* the operations after which the position is clamped, the zoom apart
PlacingOp ==
    \/ LoadedImage \/ NudgeImagePos \/ OnSceneChanged
    \/ SetImageScalePercent \/ NudgeImageScalePercent
    \/ FitImageToWidth \/ FitImageToHeight \/ FitImageContain
    \/ ResetImageToInitial \/ AnyAlign \/ ResetImageScale100 \/ SetOutputSize

EndsInBounds == image_item' # NoItem => InBounds(output_size', image_item')

\* C1 as stated: after every completed operation on a loaded image (load,
\* nudge, the scene-changed callback after a drag, zoom, percent entry and
\* nudge, fits, reset, aligns, reset to 100%, change of output size) the
\* position is inside the clamp bounds.
C1_AfterEveryOperation ==
    [][(PlacingOp \/ CallZoomImage) => EndsInBounds]_vars

\* C1: after every such operation the position is inside the clamp bounds,
\* where the zoom counts when it changes the scale (a zoom at the limit of the
\* scale range returns before the clamp).
C1_ClampInvariant ==
    [][(PlacingOp \/ (CallZoomImage /\ image_item'.scale # image_item.scale))
         => EndsInBounds]_vars

\* an arrow key pressed while the image was dragged off to the right: the
\* nudge leaves the image on the right bound
C1_Witness ==
    /\ lastOp = "nudge_image_pos"
    /\ image_item.pos[1] = MaxX(output_size)
    /\ InBounds(output_size, image_item)

\* the frame's and the scaled image's common extent on each axis
OverlapX(size, item) ==
    RSub(RMin(RAdd(item.pos[1], ScaledW(item)), R(size.w)), RMax(item.pos[1], R(0)))
OverlapY(size, item) ==
    RSub(RMin(RAdd(item.pos[2], ScaledH(item)), R(size.h)), RMax(item.pos[2], R(0)))

\* C2 as stated: after the clamp rule the scaled image overlaps the frame by
\* at least 25% of the frame's width and 25% of its height.
C2_QuarterOverlap ==
    [][(OnSceneChanged /\ image_item # NoItem) =>
         /\ RLe(Norm(output_size.w, 4), OverlapX(output_size, image_item'))
         /\ RLe(Norm(output_size.h, 4), OverlapY(output_size, image_item'))]_vars

\* C2: after the clamp rule the scaled image overlaps the frame on each axis
\* by at least the smaller of 25% of the frame's extent and the scaled
\* image's own extent.
C2_Overlap ==
    [][(OnSceneChanged /\ image_item # NoItem) =>
         /\ RLe(RMin(Norm(output_size.w, 4), ScaledW(image_item')),
                OverlapX(output_size, image_item'))
         /\ RLe(RMin(Norm(output_size.h, 4), ScaledH(image_item')),
                OverlapY(output_size, image_item'))]_vars

\* a clamped image narrower than a quarter of the frame, wholly inside it
C2_Witness ==
    /\ lastOp = "_on_scene_changed"
    /\ image_item # NoItem
    /\ RLt(ScaledW(image_item), Norm(output_size.w, 4))
    /\ OverlapX(output_size, image_item) = ScaledW(image_item)
    /\ image_item.pos[1] = MaxX(output_size)

\* C3: the clamp applied to a clamped position changes nothing, a position
\* inside the bounds is returned as it is, a coordinate outside is moved to
\* the nearest bound, and x = 2000 with a scaled size of 100 x 100 in a
\* 1920 x 1080 frame becomes 1440.
C3_ClampIdempotent ==
    [][(OnSceneChanged /\ image_item # NoItem) =>
         /\ _clamp_image_pos(output_size, image_item') = image_item'
         /\ InBounds(output_size, image_item) => image_item' = image_item
         /\ image_item' =
                setPos(image_item, ClampTo(output_size, image_item, image_item.pos))
         /\ (/\ output_size = [w |-> 1920, h |-> 1080]
             /\ ScaledW(image_item) = R(100) /\ ScaledH(image_item) = R(100)
             /\ image_item.pos = PInt(2000, 0))
                => image_item'.pos[1] = R(1440)]_vars

\* the scenario's result
C3_Witness ==
    /\ lastOp = "_on_scene_changed"
    /\ output_size = [w |-> 1920, h |-> 1080]
    /\ image_item # NoItem
    /\ ScaledW(image_item) = R(100) /\ ScaledH(image_item) = R(100)
    /\ image_item.pos[1] = R(1440)

\* C4: after fit_image_contain the scaled image is no wider and no taller
\* than the frame, and as wide or as tall as it.
C4_FitContain ==
    [][FitImageContain =>
         /\ RLe(ScaledW(image_item'), R(output_size.w))
         /\ RLe(ScaledH(image_item'), R(output_size.h))
         /\ \/ ScaledW(image_item') = R(output_size.w)
            \/ ScaledH(image_item') = R(output_size.h)]_vars

\* a fitted image as wide as the frame and less tall
C4_Witness ==
    /\ lastOp = "fit_image_contain"
    /\ ScaledW(image_item) = R(output_size.w)
    /\ RLt(ScaledH(image_item), R(output_size.h))

\* the scale and position of the initial placement
InitialScale(size, item) ==
    RMin(RDiv(R(size.w), R(item.pixmap[1])), RDiv(R(size.h), R(item.pixmap[2])))

Centered(size, item) ==
    <<RDiv(RSub(R(size.w), ScaledW(item)), R(2)),
      RDiv(RSub(R(size.h), ScaledH(item)), R(2))>>

\* C5: after a load that succeeds and after reset_image_to_initial the scale
\* is min(fw/iw, fh/ih) and the image is centered, whatever was loaded before;
\* an 800 x 600 image in the 1920 x 1080 frame gets scale 1.8 and position
\* (240, 0).
C5_InitialPlacement ==
    [][(LoadedImage \/ ResetImageToInitial) =>
         /\ image_item'.scale = InitialScale(output_size, image_item')
         /\ image_item'.pos = Centered(output_size, image_item')
         /\ (output_size = [w |-> 1920, h |-> 1080]
                /\ image_item'.pixmap = <<800, 600>>)
                => (image_item'.scale = <<9, 5>> /\ image_item'.pos = PInt(240, 0))]_vars

\* the 800 x 600 image just loaded into the 1920 x 1080 frame
C5_Witness ==
    /\ lastOp = "open_image_from_path"
    /\ output_size = [w |-> 1920, h |-> 1080]
    /\ image_item.pixmap = <<800, 600>>
    /\ image_item.scale = <<9, 5>>
    /\ image_item.pos = PInt(240, 0)

FitWidthScale(size, item) == RDiv(R(size.w), R(item.pixmap[1]))
FitHeightScale(size, item) == RDiv(R(size.h), R(item.pixmap[2]))

\* the item at the given scale, moved only as far as the clamp rule requires
ScaledInPlace(size, item, s) ==
    LET scaled == [item EXCEPT !.scale = s]
    IN  [scaled EXCEPT !.pos = ClampTo(size, scaled, item.pos)]

\* C6 as stated: fit-width sets the scale to fw/iw and fit-height to fh/ih,
\* and the position changes only as far as the clamp rule requires.
C6_FitWithoutCentering ==
    [][/\ FitImageToWidth =>
            image_item' = ScaledInPlace(output_size, image_item,
                                        FitWidthScale(output_size, image_item))
       /\ FitImageToHeight =>
            image_item' = ScaledInPlace(output_size, image_item,
                                        FitHeightScale(output_size, image_item))]_vars

\* C6: fit-width sets the scale to fw/iw and fit-height to fh/ih, and both
\* center the image on both axes.
C6_FitCenters ==
    [][/\ FitImageToWidth =>
            /\ image_item'.scale = FitWidthScale(output_size, image_item)
            /\ image_item'.pos = Centered(output_size, image_item')
       /\ FitImageToHeight =>
            /\ image_item'.scale = FitHeightScale(output_size, image_item)
            /\ image_item'.pos = Centered(output_size, image_item')]_vars

\* an image fitted to the width of the frame, taller than the frame and
\* centered on it
C6_Witness ==
    /\ lastOp = "fit_image_to_width"
    /\ ScaledW(image_item) = R(output_size.w)
    /\ RLt(R(output_size.h), ScaledH(image_item))
    /\ image_item.pos = Centered(output_size, image_item)

LocalAtCenter(size, item) ==
    <<RDiv(RSub(Norm(size.w, 2), item.pos[1]), item.scale),
      RDiv(RSub(Norm(size.h, 2), item.pos[2]), item.scale)>>

\* p' = c - s' * (c - p) / s
AnchorPos(size, item, s2) ==
    <<RSub(Norm(size.w, 2),
           RDiv(RMul(s2, RSub(Norm(size.w, 2), item.pos[1])), item.scale)),
      RSub(Norm(size.h, 2),
           RDiv(RMul(s2, RSub(Norm(size.h, 2), item.pos[2])), item.scale))>>

\* the item rescaled about the frame center and then clamped
RescaledAndClamped(size, item, s2) ==
    LET scaled == [item EXCEPT !.scale = s2]
    IN  [scaled EXCEPT !.pos = ClampTo(size, scaled, AnchorPos(size, item, s2))]

\* C8 as stated: reset_image_scale_100 sets the scale to 1 and the point of
\* the image under the frame center is the same after the call as before.
C8_CenterStaysAnchored ==
    [][ResetImageScale100 =>
         /\ image_item'.scale = R(1)
         /\ LocalAtCenter(output_size, image_item')
                = LocalAtCenter(output_size, image_item)]_vars

\* C8: reset_image_scale_100 sets the scale to 1 and moves the image to the
\* position that keeps the point under the frame center, clamped; the point
\* stays under the center when the clamp rule does not move the image.
C8_ResetScale100 ==
    [][ResetImageScale100 =>
         /\ image_item' = RescaledAndClamped(output_size, image_item, R(1))
         /\ InBounds(output_size,
                     [image_item EXCEPT !.scale = R(1),
                                        !.pos = AnchorPos(output_size, image_item, R(1))])
                => LocalAtCenter(output_size, image_item')
                       = LocalAtCenter(output_size, image_item)]_vars

\* an image reset to 100% that the clamp rule holds on the right bound
C8_Witness ==
    /\ lastOp = "reset_image_scale_100"
    /\ image_item.scale = R(1)
    /\ image_item.pos[1] = MaxX(output_size)

\* C9: zoom_image and set_image_scale_percent move the image to
\* p' = c - s' * (c - p) / s, which keeps the point under the frame center,
\* and then clamp; a zoom that does not change the scale moves nothing.
C9_AnchorPreserved ==
    [][/\ (SetImageScalePercent \/ NudgeImageScalePercent
            \/ (CallZoomImage /\ image_item'.scale # image_item.scale)) =>
            /\ image_item' =
                   RescaledAndClamped(output_size, image_item, image_item'.scale)
            /\ LocalAtCenter(output_size,
                   [image_item EXCEPT
                       !.scale = image_item'.scale,
                       !.pos = AnchorPos(output_size, image_item, image_item'.scale)])
                   = LocalAtCenter(output_size, image_item)
       /\ (CallZoomImage /\ image_item'.scale = image_item.scale) =>
            image_item' = image_item]_vars

\* the 800 x 600 image at (10, 10) and 100% in the 1920 x 1080 frame, zoomed
\* in by one normal step: 960 - 1.15 * 950 = -132.5, 540 - 1.15 * 530 = -69.5
C9_Witness ==
    /\ lastOp = "zoom_image"
    /\ output_size = [w |-> 1920, h |-> 1080]
    /\ image_item.pixmap = <<800, 600>>
    /\ image_item.scale = <<23, 20>>
    /\ image_item.pos = <<(<<-265, 2>>), (<<-139, 2>>)>>

\* the factor of a zoom step
StepFactor(zoom_in, step) ==
    LET f == CASE step = "normal" -> <<115, 100>>
               [] step = "fine" -> <<103, 100>>
               [] step = "ultra" -> <<101, 100>>
    IN  IF zoom_in THEN f ELSE <<f[2], f[1]>>

\* C10: zoom_image multiplies the scale by 1.15, 1.03 or 1.01 (divides it
\* when zooming out) and clamps the result to [0.02, 50]; a call that changes
\* the scale leaves it in [0.02, 50], and a call whose clamped result is the
\* old scale changes neither scale nor position.
C10_ZoomSteps ==
    [][\A zoom_in \in BOOLEAN, step \in ZoomSteps :
          (/\ input_calls < MaxInputCalls
           /\ ItemOp("zoom_image", zoom_image(output_size, image_item, zoom_in, step))
           /\ input_calls' = input_calls + 1) =>
             LET product == RMul(image_item.scale,
                                 Norm(StepFactor(zoom_in, step)[1],
                                      StepFactor(zoom_in, step)[2]))
                 clamped == Nearest(<<1, 50>>, <<50, 1>>, product)
             IN  /\ image_item'.scale = clamped
                 /\ clamped # image_item.scale =>
                        (RLe(<<1, 50>>, image_item'.scale)
                            /\ RLe(image_item'.scale, <<50, 1>>))
                 /\ clamped = image_item.scale => image_item' = image_item]_vars

\* a zoom in by one ultra step from 100%
C10_Witness ==
    /\ lastOp = "zoom_image"
    /\ image_item.scale = <<101, 100>>

(***************************************************************************)
(* C11.  Percentage field and +/- buttons.                                 *)
(***************************************************************************)
\* Return was pressed in the percentage field holding text
ReturnPressedWith(text) ==
    /\ lastOp = Started
    /\ lastOp' \in {"_commit_image_scale_input:" \o text, "returnPressed:" \o text}

\* C11 as stated: every value in [1.0, 5000.0] can be set through the
\* percentage field, and the scale becomes that value / 100.
C11_FieldSetsEveryValue ==
    [][\A text \in FieldTexts :
          (/\ ReturnPressedWith(text)
           /\ ParseFloat(text) # NoValue
           /\ RLe(MinPercent, ParseFloat(text))
           /\ RLe(ParseFloat(text), MaxPercent))
          => image_item'.scale = RDiv(ParseFloat(text), R(100))]_vars

(***************************************************************************)
(* C12.  Scale positivity.                                                 *)
(***************************************************************************)
\* C12: in every reachable state with an image loaded the scale is a
\* number greater than 0.
C12_ScalePositive ==
    image_item # NoItem =>
        /\ ~IsNaN(image_item.scale)
        /\ RLt(R(0), image_item.scale)

\* the smallest percentage was entered: the scale is 1/100 after a rescale
C12_Witness ==
    /\ image_item # NoItem
    /\ input_calls = 1
    /\ image_item.scale = RDiv(MinPercent, R(100))

(***************************************************************************)
(* C13.  Size of the rendered raster.                                      *)
(***************************************************************************)
\* the box the scaled image would cover without clipping
PlacedBox ==
    LET src == SourceSize(_image_path)
        x == PyRound(image_item.pos[1])
        y == PyRound(image_item.pos[2])
    IN  <<x, y,
          x + IntMax(1, PyRound(RMul(R(src[1]), image_item.scale))),
          y + IntMax(1, PyRound(RMul(R(src[2]), image_item.scale)))>>

\* C13: in every reachable state the rendered raster has exactly
\* output_size.w x output_size.h pixels, and the image covers only the part
\* of its box that lies inside the frame.
C13_RenderSize ==
    /\ RasterSize(RenderNow) = <<output_size.w, output_size.h>>
    /\ RenderNow.box = <<0, 0, output_size.w, output_size.h>>
    /\ image_item # NoItem =>
          RenderNow.image = ClipBox(PlacedBox, <<0, 0, output_size.w, output_size.h>>)

\* an image is placed with a part of it outside the frame
C13_Witness ==
    /\ image_item # NoItem
    /\ HullBox(PlacedBox, <<0, 0, output_size.w, output_size.h>>)
           # <<0, 0, output_size.w, output_size.h>>
    /\ RenderNow.image # EmptyBox
    /\ RasterSize(RenderNow) = <<output_size.w, output_size.h>>

(***************************************************************************)
(* C14, C15.  Rendering and exporting without an image.                    *)
(***************************************************************************)
\* export_image ran with an answer of the save dialog from paths
Exported(paths) ==
    /\ lastOp = Started
    /\ lastOp' \in {"export_image:" \o out_path : out_path \in paths}

\* a file holding one color only, of the size of the frame
UniformFile(output, color, size) ==
    /\ output.kind = "file"
    /\ output.raster.fill = color
    /\ output.raster.image = EmptyBox
    /\ RasterSize(output.raster) = <<size.w, size.h>>

\* C14 as stated: with no image loaded, exporting to a PNG or a JPEG file
\* name yields a uniform image of the current background color at the frame
\* size.
C14_NoImageExport ==
    [][(Exported({"out.png", "out.jpg", "out.JPEG"}) /\ image_item = NoItem)
          => /\ UniformFile(last_output', bg_color, output_size)
             /\ last_output'.format = FormatOf(Suffix(last_output'.path))]_vars

\* C15 as stated: the raster _render_output_pil returns is RGB in every
\* state, with or without an image.
C15_AlwaysFlattened == RenderNow.mode = "RGB"

(***************************************************************************)
(* C16.  Failed load.                                                      *)
(***************************************************************************)
\* C16 as stated: a failed decode, through the file dialog or a drop, leaves
\* the image, its scale and position, the image path, the image-menu flag
\* and the last-used directory as they were.
C16_FailedLoadChangesNothing ==
    [][(lastOp = Started
          /\ lastOp' \in {"open_image:failed", "open_image_from_path:failed"})
          => UNCHANGED <<image_item, _image_path, image_menu_enabled, _last_dir>>]_vars

(***************************************************************************)
(* C17.  Export and preview leave the session alone.                       *)
(***************************************************************************)
ExportOrPreviewRan ==
    /\ lastOp = Started
    /\ lastOp' \in {"export_image:" \o out_path : out_path \in OutPaths}
                    \cup {"show_export_preview"}

\* C17: export_image and show_export_preview, succeeding, failing or
\* cancelled, leave output size, background color, image path, scale,
\* position and both recent lists unchanged, and a failure is the only
\* attempt made.
C17_ExportKeepsState ==
    [][ExportOrPreviewRan
          => /\ UNCHANGED <<output_size, bg_color, _image_path, image_item,
                            _recent_sizes, _recent_bg_colors>>
             /\ last_output'.kind = "error" => last_output'.attempts = 1
             /\ last_output'.kind = "cancelled" => last_output'.attempts = 0]_vars

\* an export with an image loaded has failed
C17_Witness ==
    /\ lastOp \in {"export_image:" \o out_path : out_path \in OutPaths \ {""}}
    /\ image_item # NoItem
    /\ last_output.kind = "error"
    /\ last_output.attempts = 1

(***************************************************************************)
(* C18, C19.  Recent lists.                                                *)
(***************************************************************************)
NoDuplicates(list) ==
    \A i, j \in 1..Len(list) : list[i] = list[j] => i = j

\* C18 as stated: in every reachable state, the state right after start-up
\* included, each recent list holds at most 10 entries and no value twice.
C18_RecentListsBounded ==
    /\ Len(_recent_sizes) <= 10
    /\ Len(_recent_bg_colors) <= 10
    /\ NoDuplicates(_recent_sizes)
    /\ NoDuplicates(_recent_bg_colors)

Occurs(list, v) == \E i \in 1..Len(list) : list[i] = v

\* the places of list that hold something else than v, in order
RECURSIVE OtherPlaces(_, _, _)
OtherPlaces(list, v, from) ==
    IF from > Len(list) THEN <<>>
    ELSE (IF list[from] = v THEN <<>> ELSE <<from>>) \o OtherPlaces(list, v, from + 1)

\* new holds v first and then the entries of old that differ from v, in
\* their order, as many as fit into 10 entries
MovedToFront(old, new, v) ==
    LET places == OtherPlaces(old, v, 1)
    IN  /\ Len(new) = IntMin(10, 1 + Len(places))
        /\ new[1] = v
        /\ \A i \in 2..Len(new) : new[i] = old[places[i - 1]]

\* as MovedToFront, and the length stays when v was in old
MovedToFrontSameLength(old, new, v) ==
    /\ MovedToFront(old, new, v)
    /\ Occurs(old, v) => Len(new) = Len(old)

\* a color was picked in the dialog, a custom size was entered
PickedColor(c) == lastOp = Started /\ lastOp' = "pick_bg_color:" \o c
EnteredSize(sz) == lastOp = Started /\ lastOp' = "set_custom_size:" \o FormatSize(sz)

C20_EdgeOnFrameEdge ==
    [][/\ AlignTop => image_item'.pos[2] = R(0)
       /\ AlignLeft => image_item'.pos[1] = R(0)
       /\ AlignBottom =>
              RAdd(image_item'.pos[2], ScaledH(image_item')) = R(output_size.h)
       /\ AlignRight =>
              RAdd(image_item'.pos[1], ScaledW(image_item')) = R(output_size.w)]_vars

\* the scaled image spans at least a quarter of the frame on the axis
QuarterWide(size, item) == RLe(Norm(size.w, 4), ScaledW(item))
QuarterHigh(size, item) == RLe(Norm(size.h, 4), ScaledH(item))

\* C20: an edge alignment puts the edge of the image on the edge of the
\* frame when the scaled image spans at least a quarter of the frame on
\* that axis; a smaller image ends with its far edge on the quarter line
\* (align_top, align_left) or its near edge on the three-quarter line
\* (align_bottom, align_right).
C20_EdgeAlign ==
    [][/\ AlignTop =>
              IF QuarterHigh(output_size, image_item)
              THEN image_item'.pos[2] = R(0)
              ELSE RAdd(image_item'.pos[2], ScaledH(image_item'))
                       = Norm(output_size.h, 4)
       /\ AlignLeft =>
              IF QuarterWide(output_size, image_item)
              THEN image_item'.pos[1] = R(0)
              ELSE RAdd(image_item'.pos[1], ScaledW(image_item'))
                       = Norm(output_size.w, 4)
       /\ AlignBottom =>
              IF QuarterHigh(output_size, image_item)
              THEN RAdd(image_item'.pos[2], ScaledH(image_item')) = R(output_size.h)
              ELSE image_item'.pos[2] = Norm(3 * output_size.h, 4)
       /\ AlignRight =>
              IF QuarterWide(output_size, image_item)
              THEN RAdd(image_item'.pos[1], ScaledW(image_item')) = R(output_size.w)
              ELSE image_item'.pos[1] = Norm(3 * output_size.w, 4)]_vars

\* a scaled image at least a quarter of the frame high was aligned to the
\* bottom edge
C20_Witness ==
    /\ lastOp = "align_bottom"
    /\ image_item.scale # R(1)
    /\ QuarterHigh(output_size, image_item)
    /\ RAdd(image_item.pos[2], ScaledH(image_item)) = R(output_size.h)

(***************************************************************************)
(* Drags of the image: presses, moves and releases of the left button,     *)
(* with the right button pressed and released in between, and the queued   *)
(* scene.changed callback.                                                 *)
(***************************************************************************)
MaxDragEvents == 5

\* event.scenePos() of the presses and moves of a drag
DragPts == {<<4, 3>>, <<10, 400>>, <<300, 5>>, <<104, 103>>}

DragOp(name, newItem) ==
    /\ input_calls < MaxDragEvents
    /\ ItemOp(name, newItem)
    /\ input_calls' = input_calls + 1

\* a press on the image, or any press while the image has the mouse
DragPress ==
    \E q \in DragPts, button \in Buttons :
        /\ image_item # NoItem
        /\ button \notin image_item.buttons
        /\ image_item.buttons = {} => UnderCursor(image_item, PInt(q[1], q[2]))
        /\ DragOp("mousePressEvent:" \o button,
                  mousePressEvent(image_item, button, PInt(q[1], q[2])))

DragMove ==
    \E r \in DragPts, shift \in BOOLEAN :
        /\ image_item # NoItem
        /\ image_item.buttons # {}
        /\ DragOp(IF shift THEN "mouseMoveEvent:Shift" ELSE "mouseMoveEvent",
                  mouseMoveEvent(image_item, PInt(r[1], r[2]), shift))

DragRelease ==
    \E button \in Buttons :
        /\ image_item # NoItem
        /\ button \in image_item.buttons
        /\ DragOp("mouseReleaseEvent:" \o button,
                  mouseReleaseEvent(image_item, button))

\* an image placed in the initial frame, at rest
DragInit ==
    /\ StepInit
    /\ ~scene_changed_queued
    /\ output_size = [w |-> InitialW, h |-> InitialH]

DragNext ==
    \/ DragPress
    \/ DragMove
    \/ DragRelease
    \/ OnSceneChanged

SpecDrag == DragInit /\ [][DragNext]_vars

(***************************************************************************)
(* One change of the position, by an arrow key, a zoom or a move of a      *)
(* drag, and the scene.changed callbacks it queues.  The event loop        *)
(* delivers a queued callback, so _on_scene_changed is weakly fair.        *)
(***************************************************************************)
SettleNext ==
    \/ NudgeImagePos
    \/ CallZoomImage
    \/ MousePress
    \/ lastOp = "mousePressEvent" /\ MouseMove
    \/ OnSceneChanged

\* a step of OnSceneChanged, told by what it logs; it is enabled exactly when
\* a callback is queued
CallbackDelivered ==
    /\ scene_changed_queued
    /\ lastOp' = "_on_scene_changed"
    /\ scene_changed_queued' \in BOOLEAN

SpecSettle ==
    /\ StepInit
    /\ [][SettleNext]_vars
    /\ WF_<<lastOp, scene_changed_queued>>(CallbackDelivered)

(***************************************************************************)
(* Scroll lock, axis lock, view zoom and the remaining claims              *)
(***************************************************************************)
ScrollValues(v) == <<v.h_value, v.v_value>>

\* C21: while the scroll lock is on, a plain wheel turn, a Shift+wheel turn
\* and a move of a pan drag (also of a pan that began before the lock was
\* turned on) leave both scrollbar values as they are.
C21_LockedNoScroll ==
    [][(/\ view._scroll_locked
        /\ lastOp' \in {"wheelEvent:None", "wheelEvent:Shift",
                        "ImageView.mouseMoveEvent"})
           => ScrollValues(view') = ScrollValues(view)]_vars

\* C21, the wheel alone: with the lock on, a wheel turn without Ctrl leaves
\* the scrollbar values as they are
C21_LockedWheel ==
    [][(/\ view._scroll_locked
        /\ lastOp' \in {"wheelEvent:None", "wheelEvent:Shift"})
           => ScrollValues(view') = ScrollValues(view)]_vars

\* the lock is on while a pan that began without it is still in progress
C21_LockedWhilePanning == view._scroll_locked /\ view._panning

\* C29: once the frame has been fitted, the scroll lock is on exactly when
\* the view zoom equals the fitted zoom (max_view_zoom): it is on after
\* fit_canvas_to_window, off once a nudge has lowered the view zoom below
\* the fitted zoom and on again once the view zoom is back at it.
C29_LockIffFitted ==
    Shown => (view._scroll_locked <=> view.view_zoom = view.max_view_zoom)

\* C29, one direction: at the fitted zoom the lock is on
C29_FittedIsLocked ==
    (Shown /\ view.view_zoom = view.max_view_zoom) => view._scroll_locked

\* C30: after fit_canvas_to_window has set max_view_zoom, every nudge of the
\* view zoom leaves 0.1 <= view_zoom <= max_view_zoom, whatever the frame.
C30_ViewZoomBounds ==
    lastOp = "wheelEvent:Ctrl" =>
        /\ RLe(MinViewZoom, view.view_zoom)
        /\ RLe(view.view_zoom, view.max_view_zoom)

\* C30, the lower limit alone
C30_ViewZoomAtLeastMin ==
    lastOp = "wheelEvent:Ctrl" => RLe(MinViewZoom, view.view_zoom)

\* the left button is down on the image
LeftDown(item) == item # NoItem /\ "Left" \in item.buttons

\* C22: during one left-button drag of the image every Shift-move puts the
\* image at its press position plus the pointer's travel along one axis,
\* the axis chosen at the first Shift-move (x when |dx| >= |dy|); the axis
\* stays until the left button is released and is none after the release
\* and after the next press.
C22_AxisLock ==
    [][/\ (LeftDown(image_item) /\ lastOp' = "mouseMoveEvent:Shift") =>
              LET it == image_item'
              IN  /\ it._press_scene_pos # NoPoint
                  /\ it._lock_axis \in {"x", "y"}
                  /\ image_item._lock_axis = NoAxis =>
                         (it._lock_axis = "x"
                              <=> \E r \in DragPts :
                                     LET d == PSub(PInt(r[1], r[2]), it._press_scene_pos)
                                     IN  /\ RLe(RAbs(d[2]), RAbs(d[1]))
                                         /\ it.pos = PAdd(it._press_item_pos,
                                                          <<d[1], R(0)>>))
                  /\ \/ it.pos[1] = it._press_item_pos[1]
                     \/ it.pos[2] = it._press_item_pos[2]
       /\ (LeftDown(image_item) /\ LeftDown(image_item')
              /\ image_item._lock_axis # NoAxis) =>
              image_item'._lock_axis = image_item._lock_axis
       /\ lastOp' \in {"mouseReleaseEvent:Left", "mousePressEvent:Left"} =>
              image_item'._lock_axis = NoAxis]_vars

\* C22, as long as no other button is released during the drag
C22_AxisLockUndisturbed ==
    [][lastOp' # "mouseReleaseEvent:Right" =>
       /\ (/\ LeftDown(image_item)
           /\ image_item._press_scene_pos # NoPoint
           /\ lastOp' = "mouseMoveEvent:Shift") =>
              LET it == image_item'
              IN  /\ it._lock_axis \in {"x", "y"}
                  /\ \/ it.pos[1] = it._press_item_pos[1]
                     \/ it.pos[2] = it._press_item_pos[2]
       /\ (LeftDown(image_item) /\ LeftDown(image_item')
              /\ image_item._lock_axis # NoAxis) =>
              image_item'._lock_axis = image_item._lock_axis
       /\ lastOp' \in {"mouseReleaseEvent:Left", "mousePressEvent:Left"} =>
              image_item'._lock_axis = NoAxis]_vars

\* C23: in every reachable state an image item exists exactly when an
\* image path is set and exactly when the Image menu is enabled; a load that
\* succeeds makes all three true, a confirmed clear makes all three false
\* and a declined clear changes none of them.
C23_ImagePresence ==
    /\ [](/\ image_item # NoItem <=> _image_path # NoPath
          /\ image_item # NoItem <=> image_menu_enabled)
    /\ [][/\ (\E path \in Paths :
                 PixmapOf(path) # NullPixmap /\ open_image_from_path(path))
              => /\ image_item' # NoItem
                 /\ _image_path' # NoPath
                 /\ image_menu_enabled'
          /\ ClearImage
              => \/ /\ image_item' = NoItem
                    /\ _image_path' = NoPath
                    /\ ~image_menu_enabled'
                 \/ UNCHANGED <<image_item, _image_path, image_menu_enabled>>]_vars

\* an image was loaded and then cleared: removeItem has raised scene.changed
C23_Witness ==
    /\ image_item = NoItem
    /\ _image_path = NoPath
    /\ ~image_menu_enabled
    /\ scene_changed_queued

\* C24: the centered position ((fw - iw*s)/2, (fh - ih*s)/2) is inside the
\* clamp bounds for every frame, image and scale, so the clamp leaves it, and
\* after align_center, the three fits, a load and reset_image_to_initial the
\* image is centered on both axes.
C24_CenterInsideClamp ==
    /\ [](image_item # NoItem =>
             LET centered == setPos(image_item, Centered(output_size, image_item))
             IN  _clamp_image_pos(output_size, centered) = centered)
    /\ [][(\/ AlignCenter \/ FitImageContain \/ FitImageToWidth
           \/ FitImageToHeight \/ LoadedImage \/ ResetImageToInitial)
              => image_item'.pos = Centered(output_size, image_item')]_vars

\* align_center has centered an image wider than the frame: its left edge
\* is outside the frame
C24_Witness ==
    /\ lastOp = "align_center"
    /\ RLt(R(output_size.w), ScaledW(image_item))
    /\ image_item.pos = Centered(output_size, image_item)
    /\ RLt(image_item.pos[1], R(0))

\* the step is a call zoom_image(zoom_in, step)
ZoomedImage(zoom_in) ==
    /\ lastOp' = "zoom_image"
    /\ \E step \in ZoomSteps :
           image_item' = zoom_image(output_size, image_item, zoom_in, step)

\* C25: from every reachable scale zoom_image(zoom_in=True) leaves the scale
\* no lower than it was and zoom_image(zoom_in=False) no higher.
C25_ZoomMonotone ==
    [][/\ ZoomedImage(TRUE) => RLe(image_item.scale, image_item'.scale)
       /\ ZoomedImage(FALSE) => RLe(image_item'.scale, image_item.scale)]_vars

\* C25 for scales inside the range of zoom_image
C25_ZoomMonotoneInRange ==
    [][(RLe(MinScale, image_item.scale) /\ RLe(image_item.scale, MaxScale)) =>
       /\ ZoomedImage(TRUE) => RLe(image_item.scale, image_item'.scale)
       /\ ZoomedImage(FALSE) => RLe(image_item'.scale, image_item.scale)]_vars

\* a call of set_output_size: a preset or a recent entry of the size menu,
\* or a completed custom-size dialog
OutputSizeSet ==
    \/ SetOutputSize
    \/ RecentSize
    \/ SetCustomSize /\ lastOp' # "set_custom_size:cancelled"

\* a call of set_bg_color
BgColorSet ==
    \/ PresetBgColor
    \/ RecentBgColor
    \/ PickBgColor /\ lastOp' # "pick_bg_color:cancelled"

\* C26: after set_output_size(w, h) with an image loaded the scale is
\* min(w/iw, h/ih) and the image is centered in the new frame, whatever scale
\* and position it had; without an image there is still none and path, menu
\* and background are as before; set_bg_color changes neither the frame size
\* nor the scale nor the position.
C26_SizeChangeReplaces ==
    [][/\ OutputSizeSet =>
            IF image_item = NoItem
            THEN /\ image_item' = NoItem
                 /\ UNCHANGED <<_image_path, image_menu_enabled, bg_color,
                                _recent_bg_colors, _last_dir, last_output>>
            ELSE /\ image_item'.pixmap = image_item.pixmap
                 /\ image_item'.scale = InitialScale(output_size', image_item')
                 /\ image_item'.pos = Centered(output_size', image_item')
       /\ BgColorSet => UNCHANGED <<output_size, image_item>>]_vars

\* the 800 x 600 image, moved and scaled by the user, after the frame was
\* changed to 1080 x 1920
C26_Witness ==
    /\ lastOp = "set_output_size"
    /\ output_size = [w |-> 1080, h |-> 1920]
    /\ image_item # NoItem
    /\ image_item.pixmap = <<800, 600>>
    /\ image_item.scale = <<27, 20>>
    /\ image_item.pos = PInt(0, 555)

\* the recent lists and their persisted copies
RecentLists ==
    <<_recent_sizes, _recent_bg_colors, settings.custom_sizes, settings.bg_colors>>

\* C27: a preset size, a recent size, a preset background colour and a
\* recent background colour leave both recent lists and their persisted
\* copies as they were; only a completed custom-size dialog, a valid result
\* of the colour picker and a confirmed clear change them; a cancelled
\* custom-size dialog changes neither the output size nor the lists.
C27_OnlyCustomTouchesLists ==
    [][/\ (SetOutputSize \/ RecentSize \/ PresetBgColor \/ RecentBgColor)
            => UNCHANGED RecentLists
       /\ RecentLists' # RecentLists
            => \/ SetCustomSize /\ lastOp' # "set_custom_size:cancelled"
               \/ PickBgColor /\ lastOp' # "pick_bg_color:cancelled"
               \/ ClearRecentSizes /\ lastOp' = "_clear_recent_sizes"
               \/ ClearRecentBgColors /\ lastOp' = "_clear_recent_bg_colors"
       /\ lastOp' = "set_custom_size:cancelled"
            => UNCHANGED <<output_size, RecentLists>>]_vars

\* the second of several recent sizes was chosen: it is the output size and
\* still the second entry
C27_Witness ==
    /\ lastOp = "set_output_size:recent"
    /\ Len(_recent_sizes) >= 2
    /\ output_size = [w |-> _recent_sizes[2][1], h |-> _recent_sizes[2][2]]
    /\ _recent_sizes[1] # _recent_sizes[2]

\* the position was just changed by an arrow key, a zoom or a drag move
Mutated == lastOp \in {"nudge_image_pos", "zoom_image", "mouseMoveEvent"}

\* no callback is queued, the handler would change nothing and the position
\* is inside the clamp bounds
Settled ==
    /\ ~scene_changed_queued
    /\ _clamp_image_pos(output_size, image_item) = image_item
    /\ InBounds(output_size, image_item)

\* C28: after a change of the position by a drag move, an arrow key or a
\* zoom, the chain of scene.changed callbacks reaches a state in which the
\* handler changes nothing and the clamp bounds hold; the second callback in
\* a row already changes nothing and queues no further one.
C28_ClampSettles ==
    /\ Mutated ~> Settled
    /\ [][(lastOp = "_on_scene_changed" /\ OnSceneChanged)
            => (image_item' = image_item /\ ~scene_changed_queued')]_vars

\* the callback has pulled the image back to the right bound and nothing is
\* queued any more
C28_Witness ==
    /\ lastOp = "_on_scene_changed"
    /\ image_item.pos[1] = MaxX(output_size)
    /\ Settled

====
